---- MODULE Spec2Model ----
(***************************************************************************)
(* Model of pawdy: the safety guard (classifier call + response parser),   *)
(* the refusal message, the prompt builder's response formatter and the    *)
(* query pipeline App.Ask.                                                 *)
(*                                                                         *)
(* Text that the code inspects character by character is a sequence of    *)
(* one-character strings; error values are chains of messages, outermost   *)
(* first, the empty chain being nil.                                       *)
(***************************************************************************)
EXTENDS Integers, Sequences, FiniteSets, TLC

\* ------------------------------------------------------------------------
\* Bounds of the model
\* ------------------------------------------------------------------------

\* a raw classifier response is a concatenation of at most MaxPieces fragments
MaxPieces == 3

\* Search returns at most MaxDocs documents
MaxDocs == 2

\* number of App.Ask runs in one behaviour
MaxRuns == 2

\* a category code handed to GetRefusalMessage has at most MaxCodeDigits digits
MaxCodeDigits == 2

\* a text handed to the chunker has at most MaxWords words
MaxWords == 4

\* the chunker is run with chunk sizes of 1..MaxChunkTokens tokens
MaxChunkTokens == 2

\* number of Processor.Process calls in one behaviour
MaxProcessCalls == 2

\* number of Builder.BuildSystemPrompt calls on one builder
MaxPromptCalls == 3

\* queries that call BuildSystemPrompt concurrently on one shared Builder
MaxQueries == 2

\* white-space characters of a blank text handed to the chunker
MaxBlanks == 3

\* runs of the ingest command
MaxIngestRuns == 1

\* words of the prompt handed to GenerateStream, and text lines of a streamed
\* response body
MaxStreamItems == 10

\* ------------------------------------------------------------------------
\* strings / unicode helpers of the Go standard library
\* ------------------------------------------------------------------------

LowerLetters ==
    <<"a","b","c","d","e","f","g","h","i","j","k","l","m",
      "n","o","p","q","r","s","t","u","v","w","x","y","z">>

UpperLetters ==
    <<"A","B","C","D","E","F","G","H","I","J","K","L","M",
      "N","O","P","Q","R","S","T","U","V","W","X","Y","Z">>

Digits == {"0","1","2","3","4","5","6","7","8","9"}

\* A text is the tuple of the bytes of the Go string, each byte written as
\* the character with that code: an ASCII character is itself, any other
\* character is the two to four bytes of its UTF-8 form. Len is Go's len.

\* the characters the regexp class \s matches: space, \t, \n, \f, \r
WhiteSpace == {" ", "\t", "\n", "\r", "\f"}

\* unicode.IsSpace, the white space of strings.TrimSpace and strings.Fields:
\* \t, \n, \v, \f, \r, space, U+0085, U+00A0, U+1680, U+2000 to U+200A,
\* U+2028, U+2029, U+202F, U+205F and U+3000, as byte sequences
UnicodeSpaces ==
    { <<" ">>, <<"\t">>, <<"\n">>, <<"\r">>, <<"\f">>, <<"">>,
      <<"Â","">>, <<"Â"," ">>, <<"á","","">>, <<"â","","">>,
      <<"â","","">>, <<"â","","">>, <<"â","","">>, <<"â","","">>,
      <<"â","","">>, <<"â","","">>, <<"â","","">>, <<"â","","">>,
      <<"â","","">>, <<"â","","">>, <<"â","","¨">>, <<"â","","©">>,
      <<"â","","¯">>, <<"â","","">>, <<"ã","","">> }

LowerChar(c) ==
    IF \E i \in 1..26 : UpperLetters[i] = c
    THEN LowerLetters[CHOOSE i \in 1..26 : UpperLetters[i] = c]
    ELSE c

UpperChar(c) ==
    IF \E i \in 1..26 : LowerLetters[i] = c
    THEN UpperLetters[CHOOSE i \in 1..26 : LowerLetters[i] = c]
    ELSE c

\* the bytes 0x80 to 0xFF, in order
HighBytes ==
    <<
      "","","","","","","","","","","","","","","","",
      "","","","","","","","","","","","","","","","",
      " ","¡","¢","£","¤","¥","¦","§","¨","©","ª","«","¬","­","®","¯",
      "°","±","²","³","´","µ","¶","·","¸","¹","º","»","¼","½","¾","¿",
      "À","Á","Â","Ã","Ä","Å","Æ","Ç","È","É","Ê","Ë","Ì","Í","Î","Ï",
      "Ð","Ñ","Ò","Ó","Ô","Õ","Ö","×","Ø","Ù","Ú","Û","Ü","Ý","Þ","ß",
      "à","á","â","ã","ä","å","æ","ç","è","é","ê","ë","ì","í","î","ï",
      "ð","ñ","ò","ó","ô","õ","ö","÷","ø","ù","ú","û","ü","ý","þ","ÿ" >>

HighByteSet == { HighBytes[k] : k \in 1..128 }

\* the value of each byte above 0x7F
ByteCode ==
    [c \in HighByteSet |-> 127 + (CHOOSE k \in 1..128 : HighBytes[k] = c)]

\* the value of a byte above 0x7F, 0 for an ASCII byte
Code(c) == IF c \in HighByteSet THEN ByteCode[c] ELSE 0

IsASCII(s) == \A i \in 1..Len(s) : s[i] \notin HighByteSet

\* utf8.DecodeRuneInString at byte i of s: the number of bytes of the
\* character that starts there, 0 when the bytes are no UTF-8 character
RuneWidth(s, i) ==
    LET c == Code(s[i])
        Cont(j, lo, hi) == j <= Len(s) /\ Code(s[j]) >= lo /\ Code(s[j]) <= hi
    IN  IF c = 0 THEN 1
        ELSE IF c >= 194 /\ c <= 223 /\ Cont(i + 1, 128, 191) THEN 2
        ELSE IF /\ c >= 224 /\ c <= 239
                /\ Cont(i + 1, IF c = 224 THEN 160 ELSE 128,
                               IF c = 237 THEN 159 ELSE 191)
                /\ Cont(i + 2, 128, 191) THEN 3
        ELSE IF /\ c >= 240 /\ c <= 244
                /\ Cont(i + 1, IF c = 240 THEN 144 ELSE 128,
                               IF c = 244 THEN 143 ELSE 191)
                /\ Cont(i + 2, 128, 191) /\ Cont(i + 3, 128, 191) THEN 4
        ELSE 0

\* utf8.RuneError, U+FFFD, which strings.Map writes for a byte that is no
\* UTF-8 character
RuneError == <<"ï","¿","½">>

\* unicode.UpperLower, MaxRune + 1: the distance written for a range in
\* which upper-case and lower-case letters alternate
UpperLower == 1114111 + 1

\* unicode.CaseRanges above ASCII: <<Lo, Hi, distance to the upper case,
\* distance to the lower case>> for the letters Lo to Hi
CaseRanges ==
    <<
      <<181,181,743,0>>, <<192,214,0,32>>, <<216,222,0,32>>,
      <<224,246,-32,0>>, <<248,254,-32,0>>, <<255,255,121,0>>,
      <<256,303,UpperLower,UpperLower>>, <<304,304,0,-199>>,
      <<305,305,-232,0>>, <<306,311,UpperLower,UpperLower>>,
      <<313,328,UpperLower,UpperLower>>, <<330,375,UpperLower,UpperLower>>,
      <<376,376,0,-121>>, <<377,382,UpperLower,UpperLower>>,
      <<383,383,-300,0>>, <<384,384,195,0>>, <<385,385,0,210>>,
      <<386,389,UpperLower,UpperLower>>, <<390,390,0,206>>,
      <<391,392,UpperLower,UpperLower>>, <<393,394,0,205>>,
      <<395,396,UpperLower,UpperLower>>, <<398,398,0,79>>, <<399,399,0,202>>,
      <<400,400,0,203>>, <<401,402,UpperLower,UpperLower>>,
      <<403,403,0,205>>, <<404,404,0,207>>, <<405,405,97,0>>,
      <<406,406,0,211>>, <<407,407,0,209>>,
      <<408,409,UpperLower,UpperLower>>, <<410,410,163,0>>,
      <<412,412,0,211>>, <<413,413,0,213>>, <<414,414,130,0>>,
      <<415,415,0,214>>, <<416,421,UpperLower,UpperLower>>,
      <<422,422,0,218>>, <<423,424,UpperLower,UpperLower>>,
      <<425,425,0,218>>, <<428,429,UpperLower,UpperLower>>,
      <<430,430,0,218>>, <<431,432,UpperLower,UpperLower>>,
      <<433,434,0,217>>, <<435,438,UpperLower,UpperLower>>,
      <<439,439,0,219>>, <<440,441,UpperLower,UpperLower>>,
      <<444,445,UpperLower,UpperLower>>, <<447,447,56,0>>, <<452,452,0,2>>,
      <<453,453,-1,1>>, <<454,454,-2,0>>, <<455,455,0,2>>, <<456,456,-1,1>>,
      <<457,457,-2,0>>, <<458,458,0,2>>, <<459,459,-1,1>>, <<460,460,-2,0>>,
      <<461,476,UpperLower,UpperLower>>, <<477,477,-79,0>>,
      <<478,495,UpperLower,UpperLower>>, <<497,497,0,2>>, <<498,498,-1,1>>,
      <<499,499,-2,0>>, <<500,501,UpperLower,UpperLower>>, <<502,502,0,-97>>,
      <<503,503,0,-56>>, <<504,543,UpperLower,UpperLower>>,
      <<544,544,0,-130>>, <<546,563,UpperLower,UpperLower>>,
      <<570,570,0,10795>>, <<571,572,UpperLower,UpperLower>>,
      <<573,573,0,-163>>, <<574,574,0,10792>>, <<575,576,10815,0>>,
      <<577,578,UpperLower,UpperLower>>, <<579,579,0,-195>>,
      <<580,580,0,69>>, <<581,581,0,71>>, <<582,591,UpperLower,UpperLower>>,
      <<592,592,10783,0>>, <<593,593,10780,0>>, <<594,594,10782,0>>,
      <<595,595,-210,0>>, <<596,596,-206,0>>, <<598,599,-205,0>>,
      <<601,601,-202,0>>, <<603,603,-203,0>>, <<604,604,42319,0>>,
      <<608,608,-205,0>>, <<609,609,42315,0>>, <<611,611,-207,0>>,
      <<613,613,42280,0>>, <<614,614,42308,0>>, <<616,616,-209,0>>,
      <<617,617,-211,0>>, <<618,618,42308,0>>, <<619,619,10743,0>>,
      <<620,620,42305,0>>, <<623,623,-211,0>>, <<625,625,10749,0>>,
      <<626,626,-213,0>>, <<629,629,-214,0>>, <<637,637,10727,0>>,
      <<640,640,-218,0>>, <<642,642,42307,0>>, <<643,643,-218,0>>,
      <<647,647,42282,0>>, <<648,648,-218,0>>, <<649,649,-69,0>>,
      <<650,651,-217,0>>, <<652,652,-71,0>>, <<658,658,-219,0>>,
      <<669,669,42261,0>>, <<670,670,42258,0>>, <<837,837,84,0>>,
      <<880,883,UpperLower,UpperLower>>, <<886,887,UpperLower,UpperLower>>,
      <<891,893,130,0>>, <<895,895,0,116>>, <<902,902,0,38>>,
      <<904,906,0,37>>, <<908,908,0,64>>, <<910,911,0,63>>, <<913,929,0,32>>,
      <<931,939,0,32>>, <<940,940,-38,0>>, <<941,943,-37,0>>,
      <<945,961,-32,0>>, <<962,962,-31,0>>, <<963,971,-32,0>>,
      <<972,972,-64,0>>, <<973,974,-63,0>>, <<975,975,0,8>>,
      <<976,976,-62,0>>, <<977,977,-57,0>>, <<981,981,-47,0>>,
      <<982,982,-54,0>>, <<983,983,-8,0>>,
      <<984,1007,UpperLower,UpperLower>>, <<1008,1008,-86,0>>,
      <<1009,1009,-80,0>>, <<1010,1010,7,0>>, <<1011,1011,-116,0>>,
      <<1012,1012,0,-60>>, <<1013,1013,-96,0>>,
      <<1015,1016,UpperLower,UpperLower>>, <<1017,1017,0,-7>>,
      <<1018,1019,UpperLower,UpperLower>>, <<1021,1023,0,-130>>,
      <<1024,1039,0,80>>, <<1040,1071,0,32>>, <<1072,1103,-32,0>>,
      <<1104,1119,-80,0>>, <<1120,1153,UpperLower,UpperLower>>,
      <<1162,1215,UpperLower,UpperLower>>, <<1216,1216,0,15>>,
      <<1217,1230,UpperLower,UpperLower>>, <<1231,1231,-15,0>>,
      <<1232,1327,UpperLower,UpperLower>>, <<1329,1366,0,48>>,
      <<1377,1414,-48,0>>, <<4256,4293,0,7264>>, <<4295,4295,0,7264>>,
      <<4301,4301,0,7264>>, <<4304,4346,3008,0>>, <<4349,4351,3008,0>>,
      <<5024,5103,0,38864>>, <<5104,5109,0,8>>, <<5112,5117,-8,0>>,
      <<7296,7296,-6254,0>>, <<7297,7297,-6253,0>>, <<7298,7298,-6244,0>>,
      <<7299,7300,-6242,0>>, <<7301,7301,-6243,0>>, <<7302,7302,-6236,0>>,
      <<7303,7303,-6181,0>>, <<7304,7304,35266,0>>, <<7312,7354,0,-3008>>,
      <<7357,7359,0,-3008>>, <<7545,7545,35332,0>>, <<7549,7549,3814,0>>,
      <<7566,7566,35384,0>>, <<7680,7829,UpperLower,UpperLower>>,
      <<7835,7835,-59,0>>, <<7838,7838,0,-7615>>,
      <<7840,7935,UpperLower,UpperLower>>, <<7936,7943,8,0>>,
      <<7944,7951,0,-8>>, <<7952,7957,8,0>>, <<7960,7965,0,-8>>,
      <<7968,7975,8,0>>, <<7976,7983,0,-8>>, <<7984,7991,8,0>>,
      <<7992,7999,0,-8>>, <<8000,8005,8,0>>, <<8008,8013,0,-8>>,
      <<8017,8017,8,0>>, <<8019,8019,8,0>>, <<8021,8021,8,0>>,
      <<8023,8023,8,0>>, <<8025,8025,0,-8>>, <<8027,8027,0,-8>>,
      <<8029,8029,0,-8>>, <<8031,8031,0,-8>>, <<8032,8039,8,0>>,
      <<8040,8047,0,-8>>, <<8048,8049,74,0>>, <<8050,8053,86,0>>,
      <<8054,8055,100,0>>, <<8056,8057,128,0>>, <<8058,8059,112,0>>,
      <<8060,8061,126,0>>, <<8064,8071,8,0>>, <<8072,8079,0,-8>>,
      <<8080,8087,8,0>>, <<8088,8095,0,-8>>, <<8096,8103,8,0>>,
      <<8104,8111,0,-8>>, <<8112,8113,8,0>>, <<8115,8115,9,0>>,
      <<8120,8121,0,-8>>, <<8122,8123,0,-74>>, <<8124,8124,0,-9>>,
      <<8126,8126,-7205,0>>, <<8131,8131,9,0>>, <<8136,8139,0,-86>>,
      <<8140,8140,0,-9>>, <<8144,8145,8,0>>, <<8152,8153,0,-8>>,
      <<8154,8155,0,-100>>, <<8160,8161,8,0>>, <<8165,8165,7,0>>,
      <<8168,8169,0,-8>>, <<8170,8171,0,-112>>, <<8172,8172,0,-7>>,
      <<8179,8179,9,0>>, <<8184,8185,0,-128>>, <<8186,8187,0,-126>>,
      <<8188,8188,0,-9>>, <<8486,8486,0,-7517>>, <<8490,8490,0,-8383>>,
      <<8491,8491,0,-8262>>, <<8498,8498,0,28>>, <<8526,8526,-28,0>>,
      <<8544,8559,0,16>>, <<8560,8575,-16,0>>,
      <<8579,8580,UpperLower,UpperLower>>, <<9398,9423,0,26>>,
      <<9424,9449,-26,0>>, <<11264,11311,0,48>>, <<11312,11359,-48,0>>,
      <<11360,11361,UpperLower,UpperLower>>, <<11362,11362,0,-10743>>,
      <<11363,11363,0,-3814>>, <<11364,11364,0,-10727>>,
      <<11365,11365,-10795,0>>, <<11366,11366,-10792,0>>,
      <<11367,11372,UpperLower,UpperLower>>, <<11373,11373,0,-10780>>,
      <<11374,11374,0,-10749>>, <<11375,11375,0,-10783>>,
      <<11376,11376,0,-10782>>, <<11378,11379,UpperLower,UpperLower>>,
      <<11381,11382,UpperLower,UpperLower>>, <<11390,11391,0,-10815>>,
      <<11392,11491,UpperLower,UpperLower>>,
      <<11499,11502,UpperLower,UpperLower>>,
      <<11506,11507,UpperLower,UpperLower>>, <<11520,11557,-7264,0>>,
      <<11559,11559,-7264,0>>, <<11565,11565,-7264,0>>,
      <<42560,42605,UpperLower,UpperLower>>,
      <<42624,42651,UpperLower,UpperLower>>,
      <<42786,42799,UpperLower,UpperLower>>,
      <<42802,42863,UpperLower,UpperLower>>,
      <<42873,42876,UpperLower,UpperLower>>, <<42877,42877,0,-35332>>,
      <<42878,42887,UpperLower,UpperLower>>,
      <<42891,42892,UpperLower,UpperLower>>, <<42893,42893,0,-42280>>,
      <<42896,42899,UpperLower,UpperLower>>, <<42900,42900,48,0>>,
      <<42902,42921,UpperLower,UpperLower>>, <<42922,42922,0,-42308>>,
      <<42923,42923,0,-42319>>, <<42924,42924,0,-42315>>,
      <<42925,42925,0,-42305>>, <<42926,42926,0,-42308>>,
      <<42928,42928,0,-42258>>, <<42929,42929,0,-42282>>,
      <<42930,42930,0,-42261>>, <<42931,42931,0,928>>,
      <<42932,42947,UpperLower,UpperLower>>, <<42948,42948,0,-48>>,
      <<42949,42949,0,-42307>>, <<42950,42950,0,-35384>>,
      <<42951,42954,UpperLower,UpperLower>>,
      <<42960,42961,UpperLower,UpperLower>>,
      <<42966,42969,UpperLower,UpperLower>>,
      <<42997,42998,UpperLower,UpperLower>>, <<43859,43859,-928,0>>,
      <<43888,43967,-38864,0>>, <<65313,65338,0,32>>, <<65345,65370,-32,0>>,
      <<66560,66599,0,40>>, <<66600,66639,-40,0>>, <<66736,66771,0,40>>,
      <<66776,66811,-40,0>>, <<66928,66938,0,39>>, <<66940,66954,0,39>>,
      <<66956,66962,0,39>>, <<66964,66965,0,39>>, <<66967,66977,-39,0>>,
      <<66979,66993,-39,0>>, <<66995,67001,-39,0>>, <<67003,67004,-39,0>>,
      <<68736,68786,0,64>>, <<68800,68850,-64,0>>, <<71840,71871,0,32>>,
      <<71872,71903,-32,0>>, <<93760,93791,0,32>>, <<93792,93823,-32,0>>,
      <<125184,125217,0,34>>, <<125218,125251,-34,0>> >>

\* unicode.to for the upper or the lower case of the character r above ASCII
to(upper, r) ==
    IF \E k \in DOMAIN CaseRanges : CaseRanges[k][1] <= r /\ r <= CaseRanges[k][2]
    THEN LET cr    == CaseRanges[CHOOSE k \in DOMAIN CaseRanges :
                                   CaseRanges[k][1] <= r /\ r <= CaseRanges[k][2]]
             delta == IF upper THEN cr[3] ELSE cr[4]
             off   == r - cr[1]
         IN  IF delta = UpperLower
             THEN cr[1] + (off - (off % 2)) + (IF upper THEN 0 ELSE 1)
             ELSE r + delta
    ELSE r

\* utf8.DecodeRuneInString at byte i of s, for a character of w >= 2 bytes
DecodeRune(s, i, w) ==
    IF w = 2 THEN (Code(s[i]) - 192) * 64 + (Code(s[i + 1]) - 128)
    ELSE IF w = 3
    THEN (Code(s[i]) - 224) * 4096 + (Code(s[i + 1]) - 128) * 64
         + (Code(s[i + 2]) - 128)
    ELSE (Code(s[i]) - 240) * 262144 + (Code(s[i + 1]) - 128) * 4096
         + (Code(s[i + 2]) - 128) * 64 + (Code(s[i + 3]) - 128)

\* utf8.EncodeRune of a letter: the bytes of the character r
EncodeRune(r) ==
    LET Byte(n) == HighBytes[n - 127]
    IN  IF r < 128
        THEN <<IF r <= 90 THEN UpperLetters[r - 64] ELSE LowerLetters[r - 96]>>
        ELSE IF r < 2048
        THEN <<Byte(192 + (r \div 64)), Byte(128 + (r % 64))>>
        ELSE IF r < 65536
        THEN <<Byte(224 + (r \div 4096)), Byte(128 + ((r \div 64) % 64)),
               Byte(128 + (r % 64))>>
        ELSE <<Byte(240 + (r \div 262144)), Byte(128 + ((r \div 4096) % 64)),
               Byte(128 + ((r \div 64) % 64)), Byte(128 + (r % 64))>>

\* strings.Map(unicode.ToUpper, s) or (unicode.ToLower, s) from byte i on
RECURSIVE MapCase(_, _, _)
MapCase(s, i, upper) ==
    IF i > Len(s) THEN <<>>
    ELSE LET w == RuneWidth(s, i)
         IN  IF w = 0 THEN RuneError \o MapCase(s, i + 1, upper)
             ELSE (IF w = 1
                   THEN <<IF upper THEN UpperChar(s[i]) ELSE LowerChar(s[i])>>
                   ELSE EncodeRune(to(upper, DecodeRune(s, i, w))))
                  \o MapCase(s, i + w, upper)

\* strings.ToLower
ToLower(s) ==
    IF IsASCII(s) THEN [i \in 1..Len(s) |-> LowerChar(s[i])]
    ELSE MapCase(s, 1, FALSE)

\* strings.ToUpper
ToUpper(s) ==
    IF IsASCII(s) THEN [i \in 1..Len(s) |-> UpperChar(s[i])]
    ELSE MapCase(s, 1, TRUE)

\* first index >= k of s whose character is not in set, Len(s)+1 if none
RECURSIVE SkipWhile(_, _, _)
SkipWhile(s, k, set) ==
    IF k > Len(s) THEN Len(s) + 1
    ELSE IF s[k] \in set THEN SkipWhile(s, k + 1, set)
    ELSE k

\* the number of bytes of the white-space character that starts at byte i
\* of s (that ends at byte i, for SpaceBefore), 0 if there is none
SpaceAt(s, i) ==
    IF i > Len(s) THEN 0
    ELSE IF <<s[i]>> \in UnicodeSpaces THEN 1
    ELSE IF i + 1 <= Len(s) /\ SubSeq(s, i, i + 1) \in UnicodeSpaces THEN 2
    ELSE IF i + 2 <= Len(s) /\ SubSeq(s, i, i + 2) \in UnicodeSpaces THEN 3
    ELSE 0

SpaceBefore(s, i) ==
    IF i < 1 THEN 0
    ELSE IF <<s[i]>> \in UnicodeSpaces THEN 1
    ELSE IF i >= 2 /\ SubSeq(s, i - 1, i) \in UnicodeSpaces THEN 2
    ELSE IF i >= 3 /\ SubSeq(s, i - 2, i) \in UnicodeSpaces THEN 3
    ELSE 0

\* first index >= k of s at which no white space starts
RECURSIVE SkipSpaces(_, _)
SkipSpaces(s, k) ==
    IF SpaceAt(s, k) = 0 THEN k ELSE SkipSpaces(s, k + SpaceAt(s, k))

\* last index <= k of s at which no white space ends, 0 if none
RECURSIVE SkipBack(_, _)
SkipBack(s, k) ==
    IF SpaceBefore(s, k) = 0 THEN k ELSE SkipBack(s, k - SpaceBefore(s, k))

\* strings.TrimSpace
TrimSpace(s) ==
    LET a == SkipSpaces(s, 1)
        b == SkipBack(s, Len(s))
    IN  IF a > b THEN <<>> ELSE SubSeq(s, a, b)

\* strings.Join: the words of ws with sep between them
RECURSIVE Join(_, _)
Join(ws, sep) ==
    IF Len(ws) = 0 THEN <<>>
    ELSE IF Len(ws) = 1 THEN ws[1]
    ELSE Join(SubSeq(ws, 1, Len(ws) - 1), sep) \o sep \o ws[Len(ws)]

\* ------------------------------------------------------------------------
\* pkg/types
\* ------------------------------------------------------------------------

SafetyCategories ==
    \* S1: Violent Crimes
    (<<"S","1">> :> <<"V","i","o","l","e","n","t"," ","C","r","i","m","e","s">>) @@
    \* S2: Non-Violent Crimes
    (<<"S","2">> :> <<"N","o","n","-","V","i","o","l","e","n","t"," ","C","r","i","m","e","s">>) @@
    \* S3: Sex Crimes
    (<<"S","3">> :> <<"S","e","x"," ","C","r","i","m","e","s">>) @@
    \* S4: Child Exploitation
    (<<"S","4">> :> <<"C","h","i","l","d"," ","E","x","p","l","o","i","t","a","t","i","o","n">>) @@
    \* S5: Defamation
    (<<"S","5">> :> <<"D","e","f","a","m","a","t","i","o","n">>) @@
    \* S6: Specialized Advice
    (<<"S","6">> :> <<"S","p","e","c","i","a","l","i","z","e","d"," ","A","d","v","i","c","e">>) @@
    \* S7: Privacy
    (<<"S","7">> :> <<"P","r","i","v","a","c","y">>) @@
    \* S8: Intellectual Property
    (<<"S","8">> :> <<"I","n","t","e","l","l","e","c","t","u","a","l"," ","P","r","o","p","e","r","t","y">>) @@
    \* S9: Indiscriminate Weapons
    (<<"S","9">> :> <<"I","n","d","i","s","c","r","i","m","i","n","a","t","e"," ","W","e","a","p","o","n","s">>) @@
    \* S10: Hate
    (<<"S","1","0">> :> <<"H","a","t","e">>) @@
    \* S11: Self-Harm
    (<<"S","1","1">> :> <<"S","e","l","f","-","H","a","r","m">>) @@
    \* S12: Sexual Content
    (<<"S","1","2">> :> <<"S","e","x","u","a","l"," ","C","o","n","t","e","n","t">>) @@
    \* S13: Elections
    (<<"S","1","3">> :> <<"E","l","e","c","t","i","o","n","s">>) @@
    \* S14: Code Interpreter Abuse
    (<<"S","1","4">> :> <<"C","o","d","e"," ","I","n","t","e","r","p","r","e","t","e","r"," ","A","b","u","s","e">>)

\* types.SafetyResult; Score is never set by the guard and keeps its zero value
SafetyResult(isSafe, category, reason) ==
    [IsSafe |-> isSafe, Category |-> category, Reason |-> reason, Score |-> 0]

\* ------------------------------------------------------------------------
\* internal/safety: the response parser
\* ------------------------------------------------------------------------

\* regexp.MustCompile(`(?i)unsafe\s*(s\d+)?`): the literal, and the letters
\* (as folded by (?i)) that may open the optional capture group
unsafePattern ==
    [literal |-> <<"u","n","s","a","f","e">>, lead |-> {"s"}]

\* the number of bytes at byte i of s that are the letter c under (?i): the
\* letter in either case, or the character outside ASCII that folds to it
\* (U+017F for s, U+212A for k); 0 if there is no such letter
FoldWidth(s, i, c) ==
    IF i > Len(s) THEN 0
    ELSE IF LowerChar(s[i]) = c THEN 1
    ELSE IF c = "s" /\ i + 1 <= Len(s) /\ SubSeq(s, i, i + 1) = <<"Å","¿">> THEN 2
    ELSE IF c = "k" /\ i + 2 <= Len(s) /\ SubSeq(s, i, i + 2) = <<"â","","ª">> THEN 3
    ELSE 0

\* the index after the text at byte i of s that the literal matches under
\* (?i), 0 if it does not match there
RECURSIVE MatchFold(_, _, _)
MatchFold(s, i, literal) ==
    IF literal = <<>> THEN i
    ELSE IF FoldWidth(s, i, Head(literal)) = 0 THEN 0
    ELSE MatchFold(s, i + FoldWidth(s, i, Head(literal)), Tail(literal))

\* Regexp.FindStringSubmatch for patterns of the shape above: the leftmost
\* match, greedy \s*, greedy optional group; <<>> when there is no match,
\* else <<whole match, group 1>> with group 1 empty when it took no part
FindStringSubmatch(re, s) ==
    LET starts == {i \in 1..Len(s) : MatchFold(s, i, re.literal) # 0}
    IN  IF starts = {} THEN <<>>
        ELSE
          LET i == CHOOSE x \in starts : \A y \in starts : x <= y
              e == MatchFold(s, i, re.literal)
              k == SkipWhile(s, e, WhiteSpace)
              leads == { FoldWidth(s, k, c) : c \in re.lead } \ {0}
              w == IF leads = {} THEN 0 ELSE CHOOSE x \in leads : TRUE
              m == SkipWhile(s, k + w, Digits)
          IN  IF w > 0 /\ m > k + w
              THEN <<SubSeq(s, i, m - 1), SubSeq(s, k, m - 1)>>
              ELSE <<SubSeq(s, i, k - 1), <<>>>>

UnableToDetermine ==
    <<"U","n","a","b","l","e"," ","t","o"," ","d","e","t","e","r","m","i","n","e"," ",
      "s","a","f","e","t","y"," ","c","l","a","s","s","i","f","i","c","a","t","i","o","n">>

\* parseResponse with a fail-open default: a response it cannot parse is safe
parseResponse_failOpen(response0) ==
    LET response == TrimSpace(response0)
        matches  == FindStringSubmatch(unsafePattern, response)
    IN  IF Len(matches) > 0
        THEN IF Len(matches) > 1 /\ matches[2] # <<>>
             THEN LET categoryCode == ToUpper(matches[2])
                  IN  SafetyResult(FALSE, categoryCode,
                         IF categoryCode \in DOMAIN SafetyCategories
                         THEN SafetyCategories[categoryCode] ELSE <<>>)
             ELSE SafetyResult(FALSE, <<>>, <<>>)
        ELSE SafetyResult(TRUE, <<>>, <<>>)

\* parseResponse that keeps the captured category as written
parseResponse_noUpper(response0) ==
    LET response == TrimSpace(response0)
        matches  == FindStringSubmatch(unsafePattern, response)
    IN  IF ToLower(response) = <<"s","a","f","e">>
        THEN SafetyResult(TRUE, <<>>, <<>>)
        ELSE IF Len(matches) > 0
        THEN IF Len(matches) > 1 /\ matches[2] # <<>>
             THEN LET categoryCode == matches[2]
                  IN  SafetyResult(FALSE, categoryCode,
                         IF categoryCode \in DOMAIN SafetyCategories
                         THEN SafetyCategories[categoryCode] ELSE <<>>)
             ELSE SafetyResult(FALSE, <<>>, <<>>)
        ELSE SafetyResult(FALSE, <<>>, UnableToDetermine)

\* Guard.parseResponse
parseResponse(response0) ==
    LET response == TrimSpace(response0)
        matches  == FindStringSubmatch(unsafePattern, response)
    IN  IF ToLower(response) = <<"s","a","f","e">>
        THEN SafetyResult(TRUE, <<>>, <<>>)
        ELSE IF Len(matches) > 0
        THEN IF Len(matches) > 1 /\ matches[2] # <<>>
             THEN LET categoryCode == ToUpper(matches[2])
                  IN  SafetyResult(FALSE, categoryCode,
                         IF categoryCode \in DOMAIN SafetyCategories
                         THEN SafetyCategories[categoryCode] ELSE <<>>)
             ELSE SafetyResult(FALSE, <<>>, <<>>)
        ELSE SafetyResult(FALSE, <<>>, UnableToDetermine)

\* GetRefusalMessage that names every non-empty category, known or not
GetRefusalMessage_namesUnknown(category) ==
    LET baseMessage ==
          <<"I"," ","c","a","n","'","t"," ","p","r","o","v","i","d","e"," ",
            "a","s","s","i","s","t","a","n","c","e"," ","w","i","t","h"," ",
            "t","h","a","t"," ","r","e","q","u","e","s","t"," ","a","s"," ",
            "i","t"," ","m","a","y"," ","v","i","o","l","a","t","e"," ",
            "c","o","n","t","e","n","t"," ","s","a","f","e","t","y"," ",
            "g","u","i","d","e","l","i","n","e","s">>
    IN  IF category = <<>> THEN baseMessage \o <<".">>
        ELSE baseMessage \o <<" ","(","c","a","t","e","g","o","r","y",":"," ">>
               \o category \o <<" ","-"," ">>
               \o (IF category \in DOMAIN SafetyCategories
                   THEN SafetyCategories[category] ELSE <<>>)
               \o <<")",".">>

\* GetRefusalMessage
GetRefusalMessage(category) ==
    LET baseMessage ==
          \* I can't provide assistance with that request as it may violate
          \* content safety guidelines
          <<"I"," ","c","a","n","'","t"," ","p","r","o","v","i","d","e"," ",
            "a","s","s","i","s","t","a","n","c","e"," ","w","i","t","h"," ",
            "t","h","a","t"," ","r","e","q","u","e","s","t"," ","a","s"," ",
            "i","t"," ","m","a","y"," ","v","i","o","l","a","t","e"," ",
            "c","o","n","t","e","n","t"," ","s","a","f","e","t","y"," ",
            "g","u","i","d","e","l","i","n","e","s">>
    IN  IF category = <<>> THEN baseMessage \o <<".">>
        ELSE IF category \notin DOMAIN SafetyCategories THEN baseMessage \o <<".">>
        ELSE baseMessage \o <<" ","(","c","a","t","e","g","o","r","y",":"," ">>
               \o category \o <<" ","-"," ">> \o SafetyCategories[category]
               \o <<")",".">>

\* ------------------------------------------------------------------------
\* errors: a chain of messages, outermost first
\* ------------------------------------------------------------------------

\* the nil error
Nil == <<>>

\* fmt.Errorf("<msg>") that leaves the cause out
Wrap_dropsCause(msg, err) == <<msg>>

\* fmt.Errorf("<msg>: %w", err)
Wrap(msg, err) == <<msg>> \o err

\* a nil *types.SafetyResult
NilResult == [nil |-> TRUE]

\* ------------------------------------------------------------------------
\* internal/safety: the guard
\* ------------------------------------------------------------------------

\* Guard.IsEnabled
IsEnabled(g) == g.enabled

\* CheckInput that classifies whether or not the guard is enabled
CheckInput_ignoresEnabled(g, reply) ==
    IF reply.err # Nil
    THEN [result |-> NilResult,
          err |-> Wrap("failed to check input safety", reply.err),
          called |-> TRUE]
    ELSE [result |-> parseResponse(reply.text), err |-> Nil, called |-> TRUE]

\* Guard.CheckInput; reply is what g.client.Generate returns for the
\* classification prompt, called tells whether the client was invoked
CheckInput(g, reply) ==
    IF ~g.enabled
    THEN [result |-> SafetyResult(TRUE, <<>>, <<>>), err |-> Nil, called |-> FALSE]
    ELSE IF reply.err # Nil
    THEN [result |-> NilResult,
          err |-> Wrap("failed to check input safety", reply.err),
          called |-> TRUE]
    ELSE [result |-> parseResponse(reply.text), err |-> Nil, called |-> TRUE]

\* Guard.CheckOutput
CheckOutput(g, reply) ==
    IF ~g.enabled
    THEN [result |-> SafetyResult(TRUE, <<>>, <<>>), err |-> Nil, called |-> FALSE]
    ELSE IF reply.err # Nil
    THEN [result |-> NilResult,
          err |-> Wrap("failed to check output safety", reply.err),
          called |-> TRUE]
    ELSE [result |-> parseResponse(reply.text), err |-> Nil, called |-> TRUE]

\* ------------------------------------------------------------------------
\* internal/prompt: the builder
\* ------------------------------------------------------------------------

\* fmt.Sprintf("%d", n) for n >= 0
RECURSIVE Itoa(_)
Itoa(n) ==
    LET d == <<"0","1","2","3","4","5","6","7","8","9">>[(n % 10) + 1]
    IN  IF n < 10 THEN <<d>> ELSE Itoa(n \div 10) \o <<d>>

\* doc.Metadata[key].(string): the value and whether the key holds a string
MetaString(doc, key) ==
    IF key \in DOMAIN doc.Metadata
    THEN [v |-> doc.Metadata[key], ok |-> TRUE]
    ELSE [v |-> <<>>, ok |-> FALSE]

\* an entry of the Sources section that prints the relevance of every source
SourceLine_alwaysScore(i, source) ==
    LET sourceRef == <<"[">> \o Itoa(i) \o <<"]">>
        title     == MetaString(source, "title")
        path      == MetaString(source, "path")
        label     == IF title.ok /\ title.v # <<>>
                     THEN sourceRef \o <<" ">> \o title.v
                     ELSE IF path.ok /\ path.v # <<>>
                     THEN sourceRef \o <<" ">> \o path.v
                     ELSE sourceRef \o <<" ","D","o","c","u","m","e","n","t"," ">>
                            \o source.ID
    IN  label \o <<" ","(","r","e","l","e","v","a","n","c","e",":"," ">>
              \o Itoa(source.Score \div 10) \o <<".">>
              \o Itoa(source.Score % 10) \o <<"%",")">> \o <<"\n">>

\* one entry of the Sources section; Score is kept in thousandths, so that
\* Score*100 printed with %.1f is Score \div 10 "." Score % 10
SourceLine(i, source) ==
    LET sourceRef == <<"[">> \o Itoa(i) \o <<"]">>
        title     == MetaString(source, "title")
        path      == MetaString(source, "path")
        label     == IF title.ok /\ title.v # <<>>
                     THEN sourceRef \o <<" ">> \o title.v
                     ELSE IF path.ok /\ path.v # <<>>
                     THEN sourceRef \o <<" ">> \o path.v
                     ELSE sourceRef \o <<" ","D","o","c","u","m","e","n","t"," ">>
                            \o source.ID
        score     == IF source.Score > 0
                     THEN <<" ","(","r","e","l","e","v","a","n","c","e",":"," ">>
                            \o Itoa(source.Score \div 10) \o <<".">>
                            \o Itoa(source.Score % 10) \o <<"%",")">>
                     ELSE <<>>
    IN  label \o score \o <<"\n">>

RECURSIVE SourceLines(_, _)
SourceLines(sources, n) ==
    IF n = 0 THEN <<>>
    ELSE SourceLines(sources, n - 1) \o SourceLine(n, sources[n])

\* FormatResponse that trims the response also when there are no sources
FormatResponse_trims(response, sources) ==
    IF Len(sources) = 0 THEN TrimSpace(response)
    ELSE TrimSpace(response)
           \o <<"\n","\n","*","*","S","o","u","r","c","e","s",":","*","*","\n">>
           \o SourceLines(sources, Len(sources))

\* Builder.FormatResponse
FormatResponse(response, sources) ==
    IF Len(sources) = 0 THEN response
    ELSE TrimSpace(response)
           \o <<"\n","\n","*","*","S","o","u","r","c","e","s",":","*","*","\n">>
           \o SourceLines(sources, Len(sources))

\* BuildRAGPrompt: "Based on the following context from the documentation:"
ContextPreamble ==
    <<"B","a","s","e","d"," ","o","n"," ","t","h","e"," ","f","o","l","l",
      "o","w","i","n","g"," ","c","o","n","t","e","x","t"," ","f","r","o",
      "m"," ","t","h","e"," ","d","o","c","u","m","e","n","t","a","t","i",
      "o","n",":","\n","\n">>

\* BuildRAGPrompt: the instructions that follow the question when there is
\* context
GroundedInstructions ==
    <<"P","l","e","a","s","e"," ","a","n","s","w","e","r"," ","t","h","e",
      " ","q","u","e","s","t","i","o","n"," ","b","a","s","e","d"," ","o",
      "n"," ","t","h","e"," ","p","r","o","v","i","d","e","d"," ","c","o",
      "n","t","e","x","t","."," ","I","f"," ","t","h","e"," ","c","o","n",
      "t","e","x","t"," ","d","o","e","s","n","'","t"," ","c","o","n","t",
      "a","i","n"," ","r","e","l","e","v","a","n","t"," ","i","n","f","o",
      "r","m","a","t","i","o","n",","," ","s","a","y"," ","s","o"," ","c",
      "l","e","a","r","l","y","."," ","B","e"," ","s","p","e","c","i","f",
      "i","c"," ","a","n","d"," ","r","e","f","e","r","e","n","c","e"," ",
      "t","h","e"," ","s","o","u","r","c","e","s"," ","w","h","e","n"," ",
      "p","o","s","s","i","b","l","e",".">>

\* BuildRAGPrompt: the instructions that follow the question when there is
\* no context
GenericInstructions ==
    <<"P","l","e","a","s","e"," ","a","n","s","w","e","r"," ","t","h","i",
      "s"," ","q","u","e","s","t","i","o","n"," ","a","b","o","u","t"," ",
      "O","p","e","n","S","h","i","f","t"," ","B","a","r","e"," ","M","e",
      "t","a","l"," ","o","p","e","r","a","t","i","o","n","s","."," ","P",
      "r","o","v","i","d","e"," ","d","e","t","a","i","l","e","d",","," ",
      "p","r","a","c","t","i","c","a","l"," ","g","u","i","d","a","n","c",
      "e"," ","w","h","e","r","e"," ","p","o","s","s","i","b","l","e",".">>

\* an entry of the context that puts the path before the title
ContextEntry_pathFirst(i, doc) ==
    LET title == MetaString(doc, "title")
        path  == MetaString(doc, "path")
    IN  <<"#","#","#"," ","S","o","u","r","c","e"," ">> \o Itoa(i)
          \o (IF path.ok /\ path.v # <<>> THEN <<" ","-"," ">> \o path.v
              ELSE IF title.ok /\ title.v # <<>> THEN <<" ","-"," ">> \o title.v
              ELSE <<>>)
          \o <<":","\n">> \o doc.Content \o <<"\n","\n">>

\* BuildRAGPrompt: what the loop writes for document number i (from 1)
ContextEntry(i, doc) ==
    LET title == MetaString(doc, "title")
        path  == MetaString(doc, "path")
    IN  <<"#","#","#"," ","S","o","u","r","c","e"," ">> \o Itoa(i)
          \o (IF title.ok /\ title.v # <<>> THEN <<" ","-"," ">> \o title.v
              ELSE IF path.ok /\ path.v # <<>> THEN <<" ","-"," ">> \o path.v
              ELSE <<>>)
          \o <<":","\n">> \o doc.Content \o <<"\n","\n">>

RECURSIVE ContextEntries(_, _)
ContextEntries(context, n) ==
    IF n = 0 THEN <<>>
    ELSE ContextEntries(context, n - 1) \o ContextEntry(n, context[n])

\* Builder.BuildRAGPrompt
BuildRAGPrompt(query, context) ==
    LET contextText ==
          IF Len(context) > 0
          THEN ContextPreamble \o ContextEntries(context, Len(context))
                 \o <<"-","-","-","\n","\n">>
          ELSE <<>>
    IN  contextText
          \o <<"Q","u","e","s","t","i","o","n",":"," ">> \o query \o <<"\n","\n">>
          \o (IF Len(context) > 0 THEN GroundedInstructions
              ELSE GenericInstructions)

\* getDefaultSystemPrompt: the built-in prompt text, 1269 bytes (the source
\* holds the paw emoji as the four characters U+F8FF U+00FC U+00EA U+00E6)
getDefaultSystemPrompt ==
    <<
      "Y","o","u"," ","a","r","e"," ","P","a","w","d","y",","," ","a",
      " ","h","e","l","p","f","u","l"," ","A","I"," ","a","s","s","i",
      "s","t","a","n","t"," ","s","p","e","c","i","a","l","i","z","i",
      "n","g"," ","i","n"," ","O","p","e","n","S","h","i","f","t"," ",
      "B","a","r","e"," ","M","e","t","a","l"," ","o","p","e","r","a",
      "t","i","o","n","s"," ","a","n","d"," ","o","n","b","o","a","r",
      "d","i","n","g","."," ","Y","o","u"," ","h","e","l","p"," ","e",
      "n","g","i","n","e","e","r","s"," ","l","e","a","r","n"," ","a",
      "b","o","u","t"," ","b","a","r","e"," ","m","e","t","a","l"," ",
      "i","n","f","r","a","s","t","r","u","c","t","u","r","e",","," ",
      "t","r","o","u","b","l","e","s","h","o","o","t","i","n","g",",",
      " ","a","n","d"," ","b","e","s","t"," ","p","r","a","c","t","i",
      "c","e","s",".","\n","\n","Y","o","u","r"," ","p","e","r","s","o",
      "n","a","l","i","t","y",":","\n","-"," ","F","r","i","e","n","d",
      "l","y"," ","a","n","d"," ","a","p","p","r","o","a","c","h","a",
      "b","l","e"," ","(","u","s","e"," ","t","h","e"," ","ï","£","¿",
      "Ã","¼","Ã","ª","Ã","¦"," ","e","m","o","j","i"," ","o","c","c",
      "a","s","i","o","n","a","l","l","y",")","\n","-"," ","T","e","c",
      "h","n","i","c","a","l","l","y"," ","a","c","c","u","r","a","t",
      "e"," ","a","n","d"," ","d","e","t","a","i","l","e","d","\n","-",
      " ","P","a","t","i","e","n","t"," ","w","i","t","h"," ","n","e",
      "w","c","o","m","e","r","s","\n","-"," ","P","r","a","c","t","i",
      "c","a","l"," ","a","n","d"," ","s","o","l","u","t","i","o","n",
      "-","o","r","i","e","n","t","e","d","\n","\n","Y","o","u","r"," ",
      "e","x","p","e","r","t","i","s","e"," ","c","o","v","e","r","s",
      ":","\n","-"," ","O","p","e","n","S","h","i","f","t"," ","B","a",
      "r","e"," ","M","e","t","a","l"," ","d","e","p","l","o","y","m",
      "e","n","t"," ","a","n","d"," ","m","a","n","a","g","e","m","e",
      "n","t","\n","-"," ","I","n","f","r","a","s","t","r","u","c","t",
      "u","r","e"," ","t","r","o","u","b","l","e","s","h","o","o","t",
      "i","n","g"," ","a","n","d"," ","d","e","b","u","g","g","i","n",
      "g","\n","-"," ","N","e","t","w","o","r","k","i","n","g",","," ",
      "s","t","o","r","a","g","e",","," ","a","n","d"," ","h","a","r",
      "d","w","a","r","e"," ","c","o","n","f","i","g","u","r","a","t",
      "i","o","n","\n","-"," ","O","p","e","r","a","t","i","o","n","a",
      "l"," ","p","r","o","c","e","d","u","r","e","s"," ","a","n","d",
      " ","r","u","n","b","o","o","k","s","\n","-"," ","B","e","s","t",
      " ","p","r","a","c","t","i","c","e","s"," ","a","n","d"," ","c",
      "o","m","m","o","n"," ","p","i","t","f","a","l","l","s","\n","\n",
      "G","u","i","d","e","l","i","n","e","s",":","\n","-"," ","P","r",
      "o","v","i","d","e"," ","c","l","e","a","r",","," ","s","t","e",
      "p","-","b","y","-","s","t","e","p"," ","i","n","s","t","r","u",
      "c","t","i","o","n","s"," ","w","h","e","n"," ","p","o","s","s",
      "i","b","l","e","\n","-"," ","I","n","c","l","u","d","e"," ","r",
      "e","l","e","v","a","n","t"," ","c","o","m","m","a","n","d","s",
      ","," ","f","i","l","e"," ","p","a","t","h","s",","," ","a","n",
      "d"," ","c","o","n","f","i","g","u","r","a","t","i","o","n"," ",
      "e","x","a","m","p","l","e","s","\n","-"," ","M","e","n","t","i",
      "o","n"," ","s","a","f","e","t","y"," ","c","o","n","s","i","d",
      "e","r","a","t","i","o","n","s"," ","a","n","d"," ","p","o","t",
      "e","n","t","i","a","l"," ","r","i","s","k","s","\n","-"," ","I",
      "f"," ","y","o","u","'","r","e"," ","n","o","t"," ","c","e","r",
      "t","a","i","n"," ","a","b","o","u","t"," ","s","o","m","e","t",
      "h","i","n","g",","," ","s","a","y"," ","s","o"," ","c","l","e",
      "a","r","l","y","\n","-"," ","R","e","f","e","r","e","n","c","e",
      " ","d","o","c","u","m","e","n","t","a","t","i","o","n"," ","s",
      "o","u","r","c","e","s"," ","w","h","e","n"," ","a","v","a","i",
      "l","a","b","l","e","\n","-"," ","U","s","e"," ","t","e","c","h",
      "n","i","c","a","l"," ","t","e","r","m","i","n","o","l","o","g",
      "y"," ","a","p","p","r","o","p","r","i","a","t","e","l","y"," ",
      "b","u","t"," ","e","x","p","l","a","i","n"," ","c","o","n","c",
      "e","p","t","s"," ","f","o","r"," ","n","e","w","c","o","m","e",
      "r","s","\n","\n","W","h","e","n"," ","a","n","s","w","e","r","i",
      "n","g",":","\n","1","."," ","B","e"," ","c","o","n","c","i","s",
      "e"," ","b","u","t"," ","c","o","m","p","r","e","h","e","n","s",
      "i","v","e","\n","2","."," ","P","r","i","o","r","i","t","i","z",
      "e"," ","a","c","t","i","o","n","a","b","l","e"," ","i","n","f",
      "o","r","m","a","t","i","o","n","\n","3","."," ","I","n","c","l",
      "u","d","e"," ","t","r","o","u","b","l","e","s","h","o","o","t",
      "i","n","g"," ","t","i","p","s"," ","w","h","e","r","e"," ","r",
      "e","l","e","v","a","n","t","\n","4","."," ","S","u","g","g","e",
      "s","t"," ","n","e","x","t"," ","s","t","e","p","s"," ","o","r",
      " ","r","e","l","a","t","e","d"," ","t","o","p","i","c","s"," ",
      "t","o"," ","e","x","p","l","o","r","e","\n","\n","R","e","m","e",
      "m","b","e","r",":"," ","Y","o","u","'","r","e"," ","h","e","r",
      "e"," ","t","o"," ","h","e","l","p"," ","e","n","g","i","n","e",
      "e","r","s"," ","s","u","c","c","e","e","d"," ","w","i","t","h",
      " ","b","a","r","e"," ","m","e","t","a","l"," ","i","n","f","r",
      "a","s","t","r","u","c","t","u","r","e","!"," ","ï","£","¿","Ã",
      "¼","Ã","ª","Ã","¦" >>

\* the unreadable prompt file: os.ReadFile fails
Unreadable == [readable |-> FALSE, content |-> <<>>]

\* Builder.BuildSystemPrompt on builder b with the file system state file:
\* the returned string and error, the builder afterwards, and whether
\* os.ReadFile was called
BuildSystemPrompt(b, file) ==
    IF b.systemPrompt # <<>>
    THEN [value |-> b.systemPrompt, err |-> Nil, builder |-> b, read |-> FALSE]
    ELSE IF b.systemPromptPath # <<>>
    THEN IF ~file.readable
         THEN [value |-> <<>>,
               err |-> Wrap("failed to read system prompt file", <<"open: no such file">>),
               builder |-> b, read |-> TRUE]
         ELSE [value |-> file.content, err |-> Nil,
               builder |-> [b EXCEPT !.systemPrompt = file.content],
               read |-> TRUE]
    ELSE [value |-> getDefaultSystemPrompt, err |-> Nil,
          builder |-> [b EXCEPT !.systemPrompt = getDefaultSystemPrompt],
          read |-> FALSE]

\* ------------------------------------------------------------------------
\* internal/document: the chunker
\* ------------------------------------------------------------------------

\* first index >= k of s whose character is in set, Len(s)+1 if none
RECURSIVE SkipUntil(_, _, _)
SkipUntil(s, k, set) ==
    IF k > Len(s) THEN Len(s) + 1
    ELSE IF s[k] \in set THEN k
    ELSE SkipUntil(s, k + 1, set)

\* first index >= k of s at which white space starts, Len(s)+1 if none
RECURSIVE SkipToSpace(_, _)
SkipToSpace(s, k) ==
    IF k > Len(s) THEN Len(s) + 1
    ELSE IF SpaceAt(s, k) > 0 THEN k
    ELSE SkipToSpace(s, k + 1)

\* strings.Fields: the maximal runs of bytes without white space
RECURSIVE Fields(_)
Fields(s) ==
    LET a == SkipSpaces(s, 1)
        b == SkipToSpace(s, a)
    IN  IF a > Len(s) THEN <<>>
        ELSE <<SubSeq(s, a, b - 1)>> \o Fields(SubSeq(s, b, Len(s)))

\* getOverlapText that cuts at the overlap size without looking for a word
\* boundary
getOverlapText_rawCut(text, overlapChars) ==
    IF Len(text) <= overlapChars THEN text
    ELSE TrimSpace(SubSeq(text, Len(text) - overlapChars + 1, Len(text)))

\* getOverlapText that starts its scan one character too early
getOverlapText_offByOne(text, overlapChars) ==
    IF Len(text) <= overlapChars THEN text
    ELSE LET startPos == Len(text) - overlapChars - 1
             j        == SkipUntil(text, startPos + 1, {" "}) - 1
         IN  IF j < Len(text)
             THEN TrimSpace(SubSeq(text, j + 1, Len(text)))
             ELSE TrimSpace(SubSeq(text, startPos + 1, Len(text)))

\* Processor.getOverlapText; startPos and j count from 0 as in the code
getOverlapText(text, overlapChars) ==
    IF Len(text) <= overlapChars THEN text
    ELSE LET startPos == Len(text) - overlapChars
             j        == SkipUntil(text, startPos + 1, {" "}) - 1
         IN  IF j < Len(text)
             THEN TrimSpace(SubSeq(text, j + 1, Len(text)))
             ELSE TrimSpace(SubSeq(text, startPos + 1, Len(text)))

\* Processor.chunkText: the loop over words[i..], with the chunks closed so
\* far and the running chunk, and the flush of the final chunk after it
RECURSIVE chunkLoop(_, _, _, _, _, _)
chunkLoop(words, i, chunks, currentChunk, maxChars, overlapChars) ==
    IF i > Len(words)
    THEN IF TrimSpace(currentChunk) # <<>>
         THEN Append(chunks, TrimSpace(currentChunk))
         ELSE chunks
    ELSE LET word      == words[i]
             testChunk == IF currentChunk # <<>>
                          THEN currentChunk \o <<" ">> \o word
                          ELSE word
         IN  IF Len(testChunk) > maxChars /\ currentChunk # <<>>
             THEN LET closed == Append(chunks, TrimSpace(currentChunk))
                  IN  IF overlapChars > 0 /\ Len(closed) > 0
                      THEN chunkLoop(words, i + 1, closed,
                                     getOverlapText(currentChunk, overlapChars)
                                         \o <<" ">> \o word,
                                     maxChars, overlapChars)
                      ELSE chunkLoop(words, i + 1, closed, word,
                                     maxChars, overlapChars)
             ELSE chunkLoop(words, i + 1, chunks, testChunk,
                            maxChars, overlapChars)

\* chunkText that returns the closed chunks and forgets the running one
chunkText_noFlush(text, maxTokens, overlap) ==
    LET all == chunkLoop(Fields(text), 1, <<>>, <<>>, maxTokens * 4, overlap * 4)
    IN  IF Len(all) = 0 THEN <<>> ELSE SubSeq(all, 1, Len(all) - 1)

\* chunkText with a shortcut for a text that fits into one chunk
chunkText_shortcut(text, maxTokens, overlap) ==
    IF Len(text) <= maxTokens * 4 THEN <<text>>
    ELSE chunkLoop(Fields(text), 1, <<>>, <<>>, maxTokens * 4, overlap * 4)

\* Processor.chunkText
chunkText(text, maxTokens, overlap) ==
    LET maxChars     == maxTokens * 4
        overlapChars == overlap * 4
        words        == Fields(text)
    IN  IF Len(words) = 0 THEN <<>>
        ELSE chunkLoop(words, 1, <<>>, <<>>, maxChars, overlapChars)

\* ------------------------------------------------------------------------
\* internal/document: Processor.Process
\* ------------------------------------------------------------------------

\* regexp.ReplaceAllString for a pattern that matches no empty text: m[i]
\* is the leftmost-first match that starts at byte i, as the index of its
\* last byte (0 for no match) and the text that replaces it
RECURSIVE ReplaceAllString(_, _, _)
ReplaceAllString(s, m, i) ==
    IF i > Len(s) THEN <<>>
    ELSE IF m[i].last = 0 THEN <<s[i]>> \o ReplaceAllString(s, m, i + 1)
    ELSE m[i].repl \o ReplaceAllString(s, m, m[i].last + 1)

NoMatch == [last |-> 0, repl |-> <<>>]

\* regexp `\s+` replaced by " "
whitespaceRe(s) ==
    ReplaceAllString(s,
        [i \in 1..Len(s) |->
            IF s[i] \in WhiteSpace
            THEN [last |-> SkipWhile(s, i, WhiteSpace) - 1, repl |-> <<" ">>]
            ELSE NoMatch], 1)

\* regexp `\s+` replaced by " " and strings.TrimSpace, the last steps of
\* extractMarkdown, extractHTML and extractPDF
collapseWhiteSpace(text) == TrimSpace(whitespaceRe(text))

\* the byte 0x60, the backquote, which a string of this language cannot hold
Backtick == "U+0060"

AsciiLetters == { LowerLetters[i] : i \in 1..26 } \cup { UpperLetters[i] : i \in 1..26 }

\* extractMarkdown: (?s)'''[a-zA-Z]*\n(.*?)\n''' replaced by "$1", each ' of
\* this line standing for a backquote
codeBlockRe(s) ==
    ReplaceAllString(s,
        [i \in 1..Len(s) |->
            IF i + 2 <= Len(s) /\ SubSeq(s, i, i + 2) = <<Backtick, Backtick, Backtick>>
            THEN LET n    == SkipWhile(s, i + 3, AsciiLetters)
                     ends == { j \in (n + 1)..(Len(s) - 3) :
                                 SubSeq(s, j, j + 3) = <<"\n", Backtick, Backtick, Backtick>> }
                 IN  IF n <= Len(s) /\ s[n] = "\n" /\ ends # {}
                     THEN LET j == CHOOSE x \in ends : \A y \in ends : x <= y
                          IN  [last |-> j + 3, repl |-> SubSeq(s, n + 1, j - 1)]
                     ELSE NoMatch
            ELSE NoMatch], 1)

\* a pattern open ([^stop]+) close replaced by "$1", stop being the first
\* character of close
Enclosed(s, open, close) ==
    ReplaceAllString(s,
        [i \in 1..Len(s) |->
            IF i + Len(open) - 1 <= Len(s)
               /\ SubSeq(s, i, i + Len(open) - 1) = open
            THEN LET a == i + Len(open)
                     j == SkipUntil(s, a, {close[1]})
                 IN  IF j > a /\ j + Len(close) - 1 <= Len(s)
                        /\ SubSeq(s, j, j + Len(close) - 1) = close
                     THEN [last |-> j + Len(close) - 1,
                           repl |-> SubSeq(s, a, j - 1)]
                     ELSE NoMatch
            ELSE NoMatch], 1)

\* extractMarkdown: '([^']+)' replaced by "$1", ' standing for a backquote
inlineCodeRe(s) == Enclosed(s, <<Backtick>>, <<Backtick>>)

\* the match of `\[([^\]]*)\]\([^)]+\)` that starts at byte i, the text in
\* the brackets having at least min bytes: the index of "]" and of ")",
\* <<0, 0>> for no match
Bracketed(s, i, min) ==
    IF i > Len(s) \/ s[i] # "[" THEN <<0, 0>>
    ELSE LET j == SkipUntil(s, i + 1, {"]"})
             k == SkipUntil(s, j + 2, {")"})
         IN  IF j - i - 1 >= min /\ j + 1 <= Len(s) /\ s[j + 1] = "("
                /\ k > j + 2 /\ k <= Len(s)
             THEN <<j, k>>
             ELSE <<0, 0>>

\* extractMarkdown: `\[([^\]]+)\]\([^)]+\)` replaced by "$1"
linkRe(s) ==
    ReplaceAllString(s,
        [i \in 1..Len(s) |->
            LET b == Bracketed(s, i, 1)
            IN  IF b[1] = 0 THEN NoMatch
                ELSE [last |-> b[2], repl |-> SubSeq(s, i + 1, b[1] - 1)]], 1)

\* extractMarkdown: `!\[[^\]]*\]\([^)]+\)` replaced by ""
imageRe(s) ==
    ReplaceAllString(s,
        [i \in 1..Len(s) |->
            LET b == IF s[i] = "!" THEN Bracketed(s, i + 1, 0) ELSE <<0, 0>>
            IN  IF b[1] = 0 THEN NoMatch ELSE [last |-> b[2], repl |-> <<>>]], 1)

\* extractMarkdown: `^#{1,6}\s+(.+)$` replaced by "$1"; without the flag m
\* the pattern matches the whole text or nothing, and . matches no "\n"
headerRe(s) ==
    LET h == SkipWhile(s, 1, {"#"})
        w == SkipWhile(s, h, WhiteSpace)
    IN  IF h < 2 \/ h > 7 \/ w = h THEN s
        ELSE IF w <= Len(s)
        THEN IF \E i \in w..Len(s) : s[i] = "\n" THEN s
             ELSE SubSeq(s, w, Len(s))
        ELSE IF w - h >= 2 /\ s[Len(s)] # "\n" THEN <<s[Len(s)]>>
        ELSE s

\* extractMarkdown: `\*{1,3}([^*]+)\*{1,3}` replaced by "$1"
boldItalicRe(s) ==
    ReplaceAllString(s,
        [i \in 1..Len(s) |->
            IF s[i] = "*"
            THEN LET a == SkipWhile(s, i, {"*"})
                     j == SkipUntil(s, a, {"*"})
                     e == SkipWhile(s, j, {"*"})
                 IN  IF a - i <= 3 /\ a <= Len(s) /\ j <= Len(s)
                     THEN [last |-> IF e - j > 3 THEN j + 2 ELSE e - 1,
                           repl |-> SubSeq(s, a, j - 1)]
                     ELSE NoMatch
            ELSE NoMatch], 1)

\* extractMarkdown: `~~([^~]+)~~` replaced by "$1"
strikeRe(s) == Enclosed(s, <<"~","~">>, <<"~","~">>)

\* Processor.extractMarkdown
extractMarkdown(content) ==
    collapseWhiteSpace(
        strikeRe(boldItalicRe(headerRe(imageRe(linkRe(inlineCodeRe(
            codeBlockRe(content))))))))

\* the value of a panic: the call does not return, the program ends
Panic(value) == <<"panic", value>>

IsPanic(x) == Len(x) = 2 /\ x[1] = "panic"

\* Processor.extractHTML: regexp.MustCompile panics on its first pattern,
\* (?i)<(script|style)[^>]*>.*?</\1>, whose \1 the regexp package rejects
\* (the value is written with ' for the backquotes of the message)
extractHTML(content) ==
    Panic("regexp: Compile('(?i)<(script|style)[^>]*>.*?</\\1>'): error parsing regexp: invalid escape sequence: '\\1'")

\* Processor.extractText
extractText(content, fileType) ==
    IF ToLower(fileType) \in { <<".","m","d">>, <<".","m","a","r","k","d","o","w","n">> }
    THEN extractMarkdown(content)
    ELSE IF ToLower(fileType) \in { <<".","h","t","m","l">>, <<".","h","t","m">> }
    THEN extractHTML(content)
    ELSE content

\* Processor.extractPDF; pdf is what the PDF library makes of the file at
\* the source path: an error of pdf.Open, or the plain text of its one page
extractPDF(pdf) ==
    IF pdf.err # Nil
    THEN [text |-> <<>>, err |-> Wrap("failed to open PDF", pdf.err)]
    ELSE IF TrimSpace(pdf.content \o <<"\n">>) = <<>>
    THEN [text |-> <<>>, err |-> <<"no text could be extracted from PDF">>]
    ELSE [text |-> collapseWhiteSpace(pdf.content \o <<"\n">>), err |-> Nil]

\* md5.Sum([]byte(path)) printed with %x, for the paths of the model
md5Hex ==
    (<<"a",".","m","d">> :>
       <<"b","0","0","a","1","c","c","a","9","c","0","8","e","c","6","2",
         "a","1","a","d","c","3","b","a","c","2","3","e","1","0","f","5">>) @@
    (<<"b",".","t","x","t">> :>
       <<"c","e","5","0","6","a","c","e","2","2","f","2","8","a","c","2",
         "b","c","4","f","9","3","3","d","4","c","f","9","8","9","f","d">>)

\* Process: the types.Document built for chunk number i (counted from 0)
\* of n chunks, with the given id
Document(id, chunk, source, i, n) ==
    [ID       |-> id,
     Content  |-> chunk,
     Metadata |-> [path         |-> source.Path,
                   title        |-> source.Title,
                   type         |-> source.Type,
                   size         |-> source.Size,
                   modified     |-> source.Modified,
                   chunk_id     |-> i,
                   total_chunks |-> n]]

\* Process: the text extracted from the file, or the error; a panic of the
\* extraction is written as the error Panic(value)
ExtractedText(f, source) ==
    LET OfPDF(r) ==
            IF r.err # Nil
            THEN [text |-> <<>>, err |-> Wrap("failed to extract PDF text", r.err)]
            ELSE r
        OfText(text) ==
            IF IsPanic(text) THEN [text |-> <<>>, err |-> text]
            ELSE [text |-> text, err |-> Nil]
    IN  IF ToLower(source.Type) = <<".","p","d","f">>
        THEN OfPDF(extractPDF(f))
        ELSE IF f.err # Nil
        THEN [text |-> <<>>, err |-> Wrap("failed to read document", f.err)]
        ELSE OfText(extractText(f.content, source.Type))

\* Process that derives the document id from the chunk text
Process_idFromContent(p, f, source) ==
    LET OfChunks(chunks) ==
            [documents |->
               [k \in 1..Len(chunks) |->
                  Document(chunks[k] \o <<"-">> \o Itoa(k - 1),
                           chunks[k], source, k - 1, Len(chunks))],
             err |-> Nil]
        OfText(x) ==
            IF x.err # Nil THEN [documents |-> <<>>, err |-> x.err]
            ELSE IF TrimSpace(x.text) = <<>>
            THEN [documents |-> <<>>,
                  err |-> <<"document contains no extractable text">>]
            ELSE OfChunks(chunkText(x.text, p.chunkTokens, p.chunkOverlap))
    IN  OfText(ExtractedText(f, source))

\* Processor.Process on processor p; f is the file behind the reader (and,
\* for a PDF, behind source.Path): its content, or the error of reading it
Process(p, f, source) ==
    LET OfChunks(chunks) ==
            [documents |->
               [k \in 1..Len(chunks) |->
                  Document(md5Hex[source.Path] \o <<"-">> \o Itoa(k - 1),
                           chunks[k], source, k - 1, Len(chunks))],
             err |-> Nil]
        OfText(x) ==
            IF x.err # Nil THEN [documents |-> <<>>, err |-> x.err]
            ELSE IF TrimSpace(x.text) = <<>>
            THEN [documents |-> <<>>,
                  err |-> <<"document contains no extractable text">>]
            ELSE OfChunks(chunkText(x.text, p.chunkTokens, p.chunkOverlap))
    IN  OfText(ExtractedText(f, source))

\* ------------------------------------------------------------------------
\* internal/config and internal/app: the chunk settings of an ingest run
\* ------------------------------------------------------------------------

\* config.validate, the checks of chunk_tokens and chunk_overlap: nil, or
\* the error that makes config.Load (and app.New) fail
validate(config) ==
    IF config.ChunkTokens < 100 \/ config.ChunkTokens > 4000
    THEN <<"chunk_tokens must be between 100 and 4000">>
    ELSE IF config.ChunkOverlap < 0 \/ config.ChunkOverlap >= config.ChunkTokens
    THEN <<"chunk_overlap must be between 0 and chunk_tokens">>
    ELSE Nil

\* App.IngestFile: the chunkTokens and chunkOverlap it hands to
\* document.ProcessFile, which builds the Processor with them
IngestFile(config, chunkTokens, chunkOverlap) ==
    [chunkTokens  |-> IF chunkTokens = 0 THEN config.ChunkTokens ELSE chunkTokens,
     chunkOverlap |-> IF chunkOverlap = 0 THEN config.ChunkOverlap ELSE chunkOverlap]

\* ------------------------------------------------------------------------
\* State
\* ------------------------------------------------------------------------

VARIABLES
    cfg,            \* App.Config: Safety ("on" as TRUE), Temperature (tenths)
    builder,        \* App.PromptBuilder: systemPromptPath, systemPrompt (cache)
    file,           \* the system prompt file on disk
    pc,             \* position of the running App.Ask ("idle" between runs)
    runs,           \* completed App.Ask runs
    question,       \* Ask argument
    temperature,    \* Ask argument (tenths)
    inputReply,     \* what the classifier backend answered at the input gate
    inputResult,    \* verdict of the input gate in this run
    documents,      \* result of Retriever.Search
    systemPrompt,   \* result of PromptBuilder.BuildSystemPrompt
    opts,           \* the GenerateOptions handed to LLMClient.Generate
    response,       \* result of LLMClient.Generate
    outputReply,    \* what the classifier backend answered at the output gate
    outputResult,   \* verdict of the output gate in this run
    ret,            \* what Ask returned: answer, sources, err
    calls,          \* collaborator calls made by this run, in order
    guardCalls,     \* invocations of the guard's classifier client in this run
    lastErr,        \* the error the latest collaborator call of this run returned
    gGuard,         \* a Guard called directly: enabled
    gReply,         \* what its classifier client answers
    gOp,            \* the guard method called directly, "none" before the call
    gResult,        \* the SafetyResult that call returned
    gErr,           \* the error that call returned
    gClientCalls,   \* invocations of the classifier client by that call
    rCategory,      \* GetRefusalMessage called directly: its argument
    rOp,            \* "none" before that call, "GetRefusalMessage" after it
    rMessage,       \* the message that call returned
    kText,          \* chunkText called directly: the text
    kMaxTokens,     \* its maxTokens argument
    kOverlap,       \* its overlap argument
    kOp,            \* "none" before that call, "chunkText" after it
    kChunks,        \* the chunks that call returned
    pCalls,         \* number of Processor.Process calls made directly
    pCall,          \* the latest of them: processor, file, source, result
    pPrev,          \* the one before it
    iConfig,        \* an ingest run: chunk_tokens and chunk_overlap as configured
    iFlags,         \* the --chunk-size and --overlap flags of the ingest command
    iOp,            \* "start", then "loaded" or "rejected", then "ingested"
    iProcessor,     \* the chunkTokens and chunkOverlap the chunker is run with
    bBuilder,       \* a prompt.Builder called directly
    bFile,          \* the system prompt file on disk, for that builder
    bOp,            \* the latest method called on it, "none" before any call
    bText,          \* the query of BuildRAGPrompt, the response of FormatResponse
    bDocs,          \* the context of BuildRAGPrompt, the sources of FormatResponse
    bOut,           \* what the latest call returned
    bAgain,         \* FormatResponse(bOut, nil), once it has been called
    bFirst,         \* what the first successful BuildSystemPrompt call returned
    bPrevOk,        \* a BuildSystemPrompt call before the latest had succeeded
    bCalls,         \* number of BuildSystemPrompt calls made on the builder
    xPath,          \* a Builder shared by concurrent queries: systemPromptPath
    xFile,          \* the system prompt file on disk, for that builder
    xPtr,           \* the data-pointer word of its systemPrompt field
    xLen,           \* the length word of its systemPrompt field
    xPc,            \* per query: its position in BuildSystemPrompt
    xLocal,         \* per query: the words it holds in registers
    xRet,           \* per query: what its BuildSystemPrompt call returned
    sBackend,       \* a GenerateStream call: "ollama" or "llamacpp"
    sBody,          \* the items its loop ranges over: body lines, or words
    sScanErr,       \* reading the response body ends with an I/O error
    sPos,           \* items taken from sBody so far
    sPc,            \* position of the producer goroutine
    sTok,           \* the token it is about to send
    sThen,          \* where it goes after that send: "next" or "exit"
    sChan,          \* the tokens in the channel's buffer
    sClosed,        \* the channel is closed
    sCtx,           \* the caller's context: "live" or "cancelled"
    sObserved,      \* the producer has observed the cancellation
    sSent,          \* every token sent on the channel so far, in order
    sRecv,          \* the tokens the consumer has received, in order
    sConsumer,      \* the consumer: "receiving" or "stopped"
    qStore,         \* the Qdrant server: per collection, whether it exists
                    \* and its points by id
    nDir,           \* an ingest command: the files its directory walk found
    nFlags,         \* its --chunk-size and --overlap flags
    nPos,           \* files it has dealt with
    nOp,            \* position of the ingest command ("none": no command):
                    \* "start", "new", "create", "walk", "ingesting", or
                    \* ended: "done", "failed", "panicked"
    nReports,       \* what each IngestFile call did: path, documents, error,
                    \* whether AddDocuments was called
    nTotal,         \* totalChunks
    nRuns,          \* ingest commands started
    zFlags,         \* a reset command: its --force and --collection flags
    zAnswer,        \* what the user types at its prompt
    zOp,            \* position of the reset command ("none": no command):
                    \* "start", "new", "create", "delete", "ensure",
                    \* "recreate", or ended: "cancelled", "reset", "failed"
    zBefore         \* the Qdrant server's state when that command started

appVars == <<cfg, builder, file, pc, runs, question, temperature, inputReply,
             inputResult, documents, systemPrompt, opts, response, outputReply,
             outputResult, ret, calls, guardCalls, lastErr>>

guardVars == <<gGuard, gReply, gOp, gResult, gErr, gClientCalls>>

refusalVars == <<rCategory, rOp, rMessage>>

chunkVars == <<kText, kMaxTokens, kOverlap, kOp, kChunks>>

processVars == <<pCalls, pCall, pPrev>>

ingestVars == <<iConfig, iFlags, iOp, iProcessor>>

builderVars ==
    <<bBuilder, bFile, bOp, bText, bDocs, bOut, bAgain, bFirst, bPrevOk, bCalls>>

\* the state of the library functions called directly
callVars == <<refusalVars, chunkVars, processVars, ingestVars, builderVars>>

raceVars == <<xPath, xFile, xPtr, xLen, xPc, xLocal, xRet>>

\* the state of the concurrent and the command-level runs
streamVars == <<sBackend, sBody, sScanErr, sPos, sPc, sTok, sThen, sChan,
                sClosed, sCtx, sObserved, sSent, sRecv, sConsumer>>

storeVars == <<qStore, nDir, nFlags, nPos, nOp, nReports, nTotal, nRuns,
               zFlags, zAnswer, zOp, zBefore>>

sysVars == <<raceVars, streamVars, storeVars>>

\* what a step of a query on the shared Builder leaves alone
raceFrame == <<appVars, guardVars, callVars, streamVars, storeVars>>

\* what a step of a GenerateStream call leaves alone
streamFrame == <<appVars, guardVars, callVars, raceVars, storeVars>>

\* what a step of an ingest or reset command leaves alone
storeFrame == <<appVars, guardVars, callVars, raceVars, streamVars>>

vars == <<appVars, guardVars, callVars, sysVars>>

\* ------------------------------------------------------------------------
\* Inputs
\* ------------------------------------------------------------------------

\* pieces a classifier response is made of; the bytes C5 BF are the long s
\* U+017F, which the pattern folds to s
Fragments ==
    { <<"s","a","f","e">>, <<"S","a","f","e">>,
      <<"u","n","s","a","f","e">>, <<"U","N","S","A","F","E">>,
      <<" ">>, <<"">>, <<"S">>, <<"1">>,
      <<"s","1","0">>, <<"a","1">>,
      <<"Å","¿">>, <<"u","n","Å","¿","a","f","e">> }

RECURSIVE Concats(_)
Concats(n) ==
    IF n = 0 THEN { <<>> }
    ELSE LET P == Concats(n - 1)
         IN  P \cup { p \o f : p \in P, f \in Fragments }

\* the raw classifier responses the parser is run on
RawResponses == Concats(MaxPieces)

\* what the classifier backend answers inside a pipeline run
ClassifierTexts ==
    { <<"s","a","f","e">>,
      <<" ","S","a","f","e","\n">>,
      <<"u","n","s","a","f","e","\n","S","1">>,
      <<"u","n","s","a","f","e"," ","s","1","0">>,
      <<"u","n","s","a","f","e"," ","S","9","9">>,
      <<"u","n","s","a","f","e">>,
      <<"s","a","f","e",".">>,
      <<"b","a","n","a","n","a">>,
      <<>> }

BackendDown == <<"connection refused">>

ClassifierReplies ==
    { [text |-> t, err |-> Nil] : t \in ClassifierTexts }
      \cup { [text |-> <<>>, err |-> BackendDown] }

DocSet ==
    { [ID |-> <<"d","1">>, Content |-> <<"c","1">>,
       Metadata |-> [title |-> <<"T">>, path |-> <<"p">>], Score |-> 875],
      [ID |-> <<"d","2">>, Content |-> <<"c","2">>,
       Metadata |-> [path |-> <<"p">>], Score |-> 500],
      [ID |-> <<"d","3">>, Content |-> <<"c","3">>,
       Metadata |-> <<>>, Score |-> 0] }

DocLists == UNION { [1..n -> DocSet] : n \in 0..MaxDocs }

SearchOutcomes ==
    { [docs |-> d, err |-> Nil] : d \in DocLists }
      \cup { [docs |-> <<>>, err |-> <<"qdrant unavailable">>] }

GenerateOutcomes ==
    { [text |-> <<"o","k">>, err |-> Nil],
      [text |-> <<" ","o","k","\n">>, err |-> Nil],
      [text |-> <<>>, err |-> BackendDown] }

Questions == { <<"q","?">> }

CallTemperatures == {0, 3}

ConfigTemperatures == {0, 6}

PromptFiles ==
    { Unreadable,
      [readable |-> TRUE, content |-> <<>>],
      [readable |-> TRUE, content |-> <<"P">>] }

\* strings of 1..n digits
RECURSIVE DigitStrings(_)
DigitStrings(n) ==
    IF n = 0 THEN {}
    ELSE LET P == DigitStrings(n - 1)
         IN  { <<d>> : d \in Digits } \cup { p \o <<d>> : p \in P, d \in Digits }

\* the category codes GetRefusalMessage is called with: none, and a letter
\* followed by digits, among them the keys of SafetyCategories
CategoryCodes ==
    { <<>> } \cup
    { <<l>> \o d : l \in {"S", "s", "A", "a"}, d \in DigitStrings(MaxCodeDigits) }

\* the words of the texts handed to the chunker: 1, 2, 3, 5 and 9 characters,
\* no letter in two words
ChunkWords ==
    { <<"a">>, <<"b","c">>, <<"d","e","f">>, <<"g","h","i","j","k">>,
      <<"l","m","n","o","p","q","r","s","t">> }

WordLists == UNION { [1..n -> ChunkWords] : n \in 0..MaxWords }

\* how a text is laid out: the white space between its words and around it
Layouts ==
    { [sep |-> <<" ">>, pad |-> <<>>], [sep |-> <<"\n"," ">>, pad |-> <<" ">>] }

\* the texts handed to the chunker
Texts == { l.pad \o Join(ws, l.sep) \o l.pad : ws \in WordLists, l \in Layouts }

\* the (maxTokens, overlap) arguments, with 0 <= overlap < maxTokens
ChunkParams ==
    { x \in (1..MaxChunkTokens) \X (0..MaxChunkTokens) : x[2] < x[1] }

\* texts of white space only
BlankTexts ==
    UNION { [1..n -> {" ", "\t", "\n", ""}] : n \in 0..MaxBlanks }

\* blank texts, and single words with blank text around them
DegenerateTexts ==
    BlankTexts \cup { b \o w \o b : b \in BlankTexts, w \in ChunkWords }

\* any (maxTokens, overlap) arguments: also zero, negative, and an overlap
\* that is not below maxTokens
AnyChunkParams == (-1..MaxChunkTokens) \X (-1..MaxChunkTokens)

\* the files handed to Process: white space only, three lines with markdown
\* markup, a longer text, and a file that cannot be read
ProcessFiles ==
    { [content |-> <<" ","\n">>, err |-> Nil],
      [content |-> Join(<<<<"#"," ","a">>, <<"*","*","b","c","*","*">>,
                          <<"d","e","f">>>>, <<"\n">>),
       err |-> Nil],
      [content |-> Join(<<<<"l","m","n","o","p","q","r","s","t">>, <<"a">>,
                          <<"b","c">>, <<"g","h","i","j","k">>, <<"d","e","f">>,
                          <<"a">>>>, <<" "," ">>),
       err |-> Nil],
      [content |-> <<>>, err |-> <<"read error">>] }

\* the types.DocumentSource values handed to Process
\* (a markdown file has a title, the others have none)
DocumentSources ==
    { [Path |-> path,
       Title |-> IF type = <<".","m","d">> THEN <<"T">> ELSE <<>>,
       Type |-> type, Size |-> 0, Modified |-> 0] :
        path \in DOMAIN md5Hex,
        type \in { <<".","t","x","t">>, <<".","m","d">>, <<".","P","D","F">>,
                   <<".","h","t","m">> } }

\* NewProcessor(chunkTokens, chunkOverlap): one without and one with overlap
Processors ==
    { [chunkTokens |-> 1, chunkOverlap |-> 0],
      [chunkTokens |-> 2, chunkOverlap |-> 1] }

\* chunk_tokens and chunk_overlap as the configuration file may set them
\* (the defaults are 1000 and 200)
ChunkSettings ==
    [ChunkTokens : {50, 100, 1000, 4000, 4001}, ChunkOverlap : {-1, 0, 100, 200, 1000}]

\* the values of the ingest command's --chunk-size and --overlap flags
\* (0 when the flag is not given)
IngestFlags ==
    [chunkSize : {0, 100, 500, 2000}, overlap : {-1, 0, 50, 500}]

\* the documents handed to BuildRAGPrompt and FormatResponse: those of
\* DocSet, one with an empty title, one with an empty title and path
SourceSet ==
    DocSet \cup
    { [ID |-> <<"d","4">>, Content |-> <<"c","4">>,
       Metadata |-> [title |-> <<>>, path |-> <<"p","4">>], Score |-> 0],
      [ID |-> <<"d","5">>, Content |-> <<"c","5">>,
       Metadata |-> [title |-> <<>>, path |-> <<>>], Score |-> 72] }

SourceLists == UNION { [1..n -> SourceSet] : n \in 0..MaxDocs }

\* the response texts handed to FormatResponse
Responses ==
    { <<"o","k">>, <<" ","o","k","\n">>, <<>>, <<"a","\n","\n","b"," ">> }

\* the queries handed to BuildRAGPrompt
Queries == { <<"q","?">>, <<"a"," ","b">> }

\* the system prompt file: missing, empty, or with some content
BuilderFiles == PromptFiles \cup { [readable |-> TRUE, content |-> <<"Q">>] }

\* NewBuilder(systemPromptPath)
NewBuilders ==
    { [systemPromptPath |-> path, systemPrompt |-> <<>>] :
        path \in { <<>>, <<"s",".","m","d">> } }

NoOpts == [Temperature |-> 0, SystemPrompt |-> <<>>]

NoReturn == [answer |-> <<>>, sources |-> <<>>, err |-> Nil]

NoReply == [text |-> <<>>, err |-> Nil]

\* ------------------------------------------------------------------------
\* Initial states
\* ------------------------------------------------------------------------

IdleRun ==
    /\ pc = "idle"
    /\ runs = 0
    /\ question = <<>>
    /\ temperature = 0
    /\ inputReply = NoReply
    /\ inputResult = NilResult
    /\ documents = <<>>
    /\ systemPrompt = <<>>
    /\ opts = NoOpts
    /\ response = <<>>
    /\ outputReply = NoReply
    /\ outputResult = NilResult
    /\ ret = NoReturn
    /\ calls = <<>>
    /\ guardCalls = 0
    /\ lastErr = Nil

NoGuardCall ==
    /\ gOp = "none"
    /\ gResult = NilResult
    /\ gErr = Nil
    /\ gClientCalls = 0

NoRefusalCall ==
    /\ rCategory = <<>>
    /\ rOp = "none"
    /\ rMessage = <<>>

NoChunkCall ==
    /\ kText = <<>>
    /\ kMaxTokens = 0
    /\ kOverlap = 0
    /\ kOp = "none"
    /\ kChunks = <<>>

\* no Process call
NoCall == [none |-> TRUE]

NoProcessCall ==
    /\ pCalls = 0
    /\ pCall = NoCall
    /\ pPrev = NoCall

NoProcessor == [chunkTokens |-> 0, chunkOverlap |-> 0]

NoIngestRun ==
    /\ iConfig = [ChunkTokens |-> 0, ChunkOverlap |-> 0]
    /\ iFlags = [chunkSize |-> 0, overlap |-> 0]
    /\ iOp = "none"
    /\ iProcessor = NoProcessor

\* no successful BuildSystemPrompt call yet
NotLoaded == [none |-> TRUE]

\* a builder that has not been called
FreshBuilder ==
    /\ bOp = "none"
    /\ bOut = <<>>
    /\ bAgain = <<>>
    /\ bFirst = NotLoaded
    /\ bPrevOk = FALSE
    /\ bCalls = 0

NoBuilderCall ==
    /\ bBuilder = [systemPromptPath |-> <<>>, systemPrompt |-> <<>>]
    /\ bFile = Unreadable
    /\ bText = <<>>
    /\ bDocs = <<>>
    /\ FreshBuilder

\* no query is running on a shared Builder
NoRace ==
    /\ xPath = <<>>
    /\ xFile = Unreadable
    /\ xPtr = 0
    /\ xLen = 0
    /\ xPc = <<>>
    /\ xLocal = <<>>
    /\ xRet = <<>>

\* no token of a stream
NoToken == [Text |-> <<>>, Done |-> FALSE, Error |-> Nil]

\* no GenerateStream call
NoStream ==
    /\ sBackend = "none"
    /\ sBody = <<>>
    /\ sScanErr = FALSE
    /\ sPos = 0
    /\ sPc = "none"
    /\ sTok = NoToken
    /\ sThen = "none"
    /\ sChan = <<>>
    /\ sClosed = FALSE
    /\ sCtx = "live"
    /\ sObserved = FALSE
    /\ sSent = <<>>
    /\ sRecv = <<>>
    /\ sConsumer = "none"

\* no ingest command
NoIngestCommand ==
    /\ nDir = <<>>
    /\ nFlags = [chunkSize |-> 0, overlap |-> 0]
    /\ nPos = 0
    /\ nOp = "none"
    /\ nReports = <<>>
    /\ nTotal = 0
    /\ nRuns = 0

\* no reset command
NoResetCommand ==
    /\ zFlags = [force |-> FALSE, collection |-> <<>>]
    /\ zAnswer = <<>>
    /\ zOp = "none"
    /\ zBefore = <<>>

\* no Qdrant server and no command that talks to it
NoStore ==
    /\ qStore = <<>>
    /\ NoIngestCommand
    /\ NoResetCommand

\* no concurrent and no command-level run takes part
NoSystemRun ==
    /\ NoRace
    /\ NoStream
    /\ NoStore

\* no library function is called directly
NoDirectCall ==
    /\ NoSystemRun
    /\ NoRefusalCall
    /\ NoChunkCall
    /\ NoProcessCall
    /\ NoIngestRun
    /\ NoBuilderCall

\* app.New: the configuration is loaded, the guard and the builder are built
Init ==
    /\ cfg \in [Safety : BOOLEAN, Temperature : ConfigTemperatures]
    /\ builder \in { [systemPromptPath |-> p, systemPrompt |-> <<>>] :
                       p \in { <<>>, <<"s",".","m","d">> } }
    /\ file \in PromptFiles
    /\ IdleRun
    /\ gGuard = [enabled |-> FALSE]
    /\ gReply = NoReply
    /\ NoGuardCall
    /\ NoDirectCall

\* safety.NewGuard(client, enabled) with a classifier that will answer gReply:
\* an enabled guard gets every raw response, a disabled one (which never asks
\* its classifier) the replies of the pipeline runs
InitGuard ==
    /\ cfg = [Safety |-> FALSE, Temperature |-> 0]
    /\ builder = [systemPromptPath |-> <<>>, systemPrompt |-> <<>>]
    /\ file = Unreadable
    /\ IdleRun
    /\ \/ /\ gGuard = [enabled |-> TRUE]
          /\ gReply \in { [text |-> t, err |-> Nil] : t \in RawResponses }
                          \cup { [text |-> <<>>, err |-> BackendDown] }
       \/ /\ gGuard = [enabled |-> FALSE]
          /\ gReply \in ClassifierReplies
    /\ NoGuardCall
    /\ NoDirectCall

\* ------------------------------------------------------------------------
\* internal/app: App.Ask, one action per pipeline stage
\* ------------------------------------------------------------------------

\* the guard app.New builds: safety.NewGuard(safetyClient, cfg.Safety == "on")
SafetyGate == [enabled |-> cfg.Safety]

Return(answer, sources, err, outcome) ==
    /\ ret' = [answer |-> answer, sources |-> sources, err |-> err]
    /\ pc' = outcome

\* app.Source built from a retrieved document
Source(doc) ==
    [ID |-> doc.ID, Content |-> doc.Content, Metadata |-> doc.Metadata,
     Score |-> doc.Score]

\* Ask returning no sources with its answer
Sources_none(docs) == <<>>

\* Ask: "Convert documents to sources"
Sources(docs) == [i \in 1..Len(docs) |-> Source(docs[i])]

\* a caller invokes Ask(ctx, question, temperature)
AskStart ==
    /\ pc = "idle"
    /\ runs < MaxRuns
    /\ \E q \in Questions, t \in CallTemperatures :
          /\ question' = q
          /\ temperature' = t
    /\ pc' = "INPUT_CHECK"
    /\ inputReply' = NoReply
    /\ inputResult' = NilResult
    /\ documents' = <<>>
    /\ systemPrompt' = <<>>
    /\ opts' = NoOpts
    /\ response' = <<>>
    /\ outputReply' = NoReply
    /\ outputResult' = NilResult
    /\ ret' = NoReturn
    /\ calls' = <<>>
    /\ guardCalls' = 0
    /\ lastErr' = Nil
    /\ UNCHANGED <<cfg, builder, file, runs, guardVars, callVars, sysVars>>

\* the input gate without the refusal: an unsafe question goes on to retrieval
InputGate_noShortCircuit(r) ==
    IF r.err # Nil
    THEN Return(<<>>, <<>>, Wrap("safety check failed", r.err), "FAILED")
    ELSE pc' = "RETRIEVE" /\ UNCHANGED ret

\* Ask: what follows SafetyGate.CheckInput returning r
InputGate(r) ==
    IF r.err # Nil
    THEN Return(<<>>, <<>>, Wrap("safety check failed", r.err), "FAILED")
    ELSE IF ~r.result.IsSafe
    THEN Return(GetRefusalMessage(r.result.Category), <<>>, Nil, "ABORT_UNSAFE")
    ELSE pc' = "RETRIEVE" /\ UNCHANGED ret

\* Ask: "Check input safety"
InputCheck ==
    /\ pc = "INPUT_CHECK"
    /\ IF IsEnabled(SafetyGate)
       THEN \E reply \in ClassifierReplies :
              LET r == CheckInput(SafetyGate, reply)
              IN  /\ calls' = Append(calls, "CheckInput")
                  /\ guardCalls' = guardCalls + (IF r.called THEN 1 ELSE 0)
                  /\ inputReply' = reply
                  /\ inputResult' = r.result
                  /\ lastErr' = r.err
                  /\ InputGate(r)
       ELSE /\ pc' = "RETRIEVE"
            /\ UNCHANGED <<calls, guardCalls, inputReply, inputResult, lastErr, ret>>
    /\ UNCHANGED <<cfg, builder, file, runs, question, temperature, documents,
                   systemPrompt, opts, response, outputReply, outputResult,
                   guardVars, callVars, sysVars>>

\* Ask: "Retrieve relevant documents"
Retrieve ==
    /\ pc = "RETRIEVE"
    /\ \E out \in SearchOutcomes :
          /\ calls' = Append(calls, "Search")
          /\ lastErr' = out.err
          /\ IF out.err # Nil
             THEN /\ Return(<<>>, <<>>, Wrap("failed to retrieve documents", out.err),
                            "FAILED")
                  /\ UNCHANGED documents
             ELSE /\ documents' = out.docs
                  /\ pc' = "PROMPT_BUILD"
                  /\ UNCHANGED ret
    /\ UNCHANGED <<cfg, builder, file, runs, question, temperature, inputReply,
                   inputResult, systemPrompt, opts, response, outputReply,
                   outputResult, guardCalls, guardVars, callVars, sysVars>>

\* Ask: "Build prompt with context", "Get system prompt"
PromptBuild ==
    /\ pc = "PROMPT_BUILD"
    /\ LET r == BuildSystemPrompt(builder, file)
       IN  /\ calls' = calls \o <<"BuildRAGPrompt", "BuildSystemPrompt">>
           /\ lastErr' = r.err
           /\ builder' = r.builder
           /\ IF r.err # Nil
              THEN /\ Return(<<>>, <<>>, Wrap("failed to build system prompt", r.err),
                             "FAILED")
                   /\ UNCHANGED systemPrompt
              ELSE /\ systemPrompt' = r.value
                   /\ pc' = "GENERATE"
                   /\ UNCHANGED ret
    /\ UNCHANGED <<cfg, file, runs, question, temperature, inputReply, inputResult,
                   documents, opts, response, outputReply, outputResult,
                   guardCalls, guardVars, callVars, sysVars>>

\* generation options without the fallback to the configured temperature
GenerateOptions_noDefault(t, c, sp) ==
    [Temperature |-> t, SystemPrompt |-> sp]

\* Ask: the types.GenerateOptions of "Configure generation options" for a
\* per-call temperature t, the configuration c and the system prompt sp
GenerateOptions(t, c, sp) ==
    [Temperature  |-> IF t = 0 THEN c.Temperature ELSE t,
     SystemPrompt |-> sp]

\* the generation step as it would be with one retry after a failure
Generate_retriesOnce ==
    /\ pc = "GENERATE"
    /\ opts' = GenerateOptions(temperature, cfg, systemPrompt)
    /\ \E out \in GenerateOutcomes :
          /\ calls' = Append(calls, "Generate")
          /\ lastErr' = out.err
          /\ IF out.err # Nil /\ calls[Len(calls)] = "Generate"
             THEN /\ Return(<<>>, <<>>, Wrap("failed to generate response", out.err),
                            "FAILED")
                  /\ UNCHANGED response
             ELSE IF out.err # Nil
             THEN UNCHANGED <<pc, ret, response>>
             ELSE /\ response' = out.text
                  /\ pc' = "OUTPUT_CHECK"
                  /\ UNCHANGED ret
    /\ UNCHANGED <<cfg, builder, file, runs, question, temperature, inputReply,
                   inputResult, documents, systemPrompt, outputReply,
                   outputResult, guardCalls, guardVars, callVars, sysVars>>

\* Ask: "Configure generation options", "Generate response"
Generate ==
    /\ pc = "GENERATE"
    /\ opts' = GenerateOptions(temperature, cfg, systemPrompt)
    /\ \E out \in GenerateOutcomes :
          /\ calls' = Append(calls, "Generate")
          /\ lastErr' = out.err
          /\ IF out.err # Nil
             THEN /\ Return(<<>>, <<>>, Wrap("failed to generate response", out.err),
                            "FAILED")
                  /\ UNCHANGED response
             ELSE /\ response' = out.text
                  /\ pc' = "OUTPUT_CHECK"
                  /\ UNCHANGED ret
    /\ UNCHANGED <<cfg, builder, file, runs, question, temperature, inputReply,
                   inputResult, documents, systemPrompt, outputReply,
                   outputResult, guardCalls, guardVars, callVars, sysVars>>

\* the output gate refusing but still handing out the retrieved sources
OutputGate_keepsSources(r) ==
    IF r.err # Nil
    THEN Return(<<>>, <<>>, Wrap("output safety check failed", r.err), "FAILED")
    ELSE IF ~r.result.IsSafe
    THEN Return(GetRefusalMessage(r.result.Category), Sources(documents), Nil,
                "ABORT_UNSAFE")
    ELSE pc' = "FORMAT" /\ UNCHANGED ret

\* the output gate that classifies but does not act on the verdict
OutputGate_ignoresVerdict(r) ==
    IF r.err # Nil
    THEN Return(<<>>, <<>>, Wrap("output safety check failed", r.err), "FAILED")
    ELSE pc' = "FORMAT" /\ UNCHANGED ret

\* Ask: what follows SafetyGate.CheckOutput returning r
OutputGate(r) ==
    IF r.err # Nil
    THEN Return(<<>>, <<>>, Wrap("output safety check failed", r.err), "FAILED")
    ELSE IF ~r.result.IsSafe
    THEN Return(GetRefusalMessage(r.result.Category), <<>>, Nil, "ABORT_UNSAFE")
    ELSE pc' = "FORMAT" /\ UNCHANGED ret

\* Ask: "Check output safety"
OutputCheck ==
    /\ pc = "OUTPUT_CHECK"
    /\ IF IsEnabled(SafetyGate)
       THEN \E reply \in ClassifierReplies :
              LET r == CheckOutput(SafetyGate, reply)
              IN  /\ calls' = Append(calls, "CheckOutput")
                  /\ guardCalls' = guardCalls + (IF r.called THEN 1 ELSE 0)
                  /\ outputReply' = reply
                  /\ outputResult' = r.result
                  /\ lastErr' = r.err
                  /\ OutputGate(r)
       ELSE /\ pc' = "FORMAT"
            /\ UNCHANGED <<calls, guardCalls, outputReply, outputResult, lastErr, ret>>
    /\ UNCHANGED <<cfg, builder, file, runs, question, temperature, inputReply,
                   inputResult, documents, systemPrompt, opts, response,
                   guardVars, callVars, sysVars>>

\* the final return with the citations rendered into the answer text
FinalReturn_cited(text, docs) ==
    [answer |-> FormatResponse(text, docs), sources |-> Sources(docs)]

\* Ask: the values of the final return for the generated text and the
\* retrieved documents
FinalReturn(text, docs) == [answer |-> text, sources |-> Sources(docs)]

\* Ask: "Convert documents to sources" and the final return
Format ==
    /\ pc = "FORMAT"
    /\ LET r == FinalReturn(response, documents)
       IN  Return(r.answer, r.sources, Nil, "DONE")
    /\ UNCHANGED <<cfg, builder, file, runs, question, temperature, inputReply,
                   inputResult, documents, systemPrompt, opts, response,
                   outputReply, outputResult, calls, guardCalls, lastErr,
                   guardVars, callVars, sysVars>>

\* the caller has the result of Ask; the App is ready for the next question
AskReturned ==
    /\ pc \in {"DONE", "ABORT_UNSAFE", "FAILED"}
    /\ pc' = "idle"
    /\ runs' = runs + 1
    /\ UNCHANGED <<cfg, builder, file, question, temperature, inputReply,
                   inputResult, documents, systemPrompt, opts, response,
                   outputReply, outputResult, ret, calls, guardCalls, lastErr,
                   guardVars, callVars, sysVars>>

\* the system prompt file is edited, removed or created between two questions
ChangePromptFile ==
    /\ pc = "idle"
    /\ runs > 0
    /\ \E f \in PromptFiles \ {file} : file' = f
    /\ UNCHANGED <<cfg, builder, pc, runs, question, temperature, inputReply,
                   inputResult, documents, systemPrompt, opts, response,
                   outputReply, outputResult, ret, calls, guardCalls, lastErr,
                   guardVars, callVars, sysVars>>

Next ==
    \/ AskStart
    \/ InputCheck
    \/ Retrieve
    \/ PromptBuild
    \/ Generate
    \/ OutputCheck
    \/ Format
    \/ AskReturned
    \/ ChangePromptFile

Spec == Init /\ [][Next]_vars

\* ------------------------------------------------------------------------
\* internal/safety: the guard's methods called directly
\* ------------------------------------------------------------------------

GuardCheckInput ==
    /\ gOp = "none"
    /\ LET r == CheckInput(gGuard, gReply)
       IN  /\ gResult' = r.result
           /\ gErr' = r.err
           /\ gClientCalls' = gClientCalls + (IF r.called THEN 1 ELSE 0)
    /\ gOp' = "CheckInput"
    /\ UNCHANGED <<appVars, callVars, sysVars, gGuard, gReply>>

GuardCheckOutput ==
    /\ gOp = "none"
    /\ LET r == CheckOutput(gGuard, gReply)
       IN  /\ gResult' = r.result
           /\ gErr' = r.err
           /\ gClientCalls' = gClientCalls + (IF r.called THEN 1 ELSE 0)
    /\ gOp' = "CheckOutput"
    /\ UNCHANGED <<appVars, callVars, sysVars, gGuard, gReply>>

\* parseResponse applied to the classifier's text, as TestParseResponse does
GuardParseResponse ==
    /\ gOp = "none"
    /\ gReply.err = Nil
    /\ gResult' = parseResponse(gReply.text)
    /\ gOp' = "parseResponse"
    /\ UNCHANGED <<appVars, callVars, sysVars, gGuard, gReply, gErr, gClientCalls>>

NextGuard ==
    \/ GuardCheckInput
    \/ GuardCheckOutput
    \/ GuardParseResponse

SpecGuard == InitGuard /\ [][NextGuard]_vars

\* ------------------------------------------------------------------------
\* library functions called directly
\* ------------------------------------------------------------------------

\* no App and no Guard take part
NoApp ==
    /\ cfg = [Safety |-> FALSE, Temperature |-> 0]
    /\ builder = [systemPromptPath |-> <<>>, systemPrompt |-> <<>>]
    /\ file = Unreadable
    /\ IdleRun
    /\ gGuard = [enabled |-> FALSE]
    /\ gReply = NoReply
    /\ NoGuardCall

\* safety.GetRefusalMessage(category) is about to be called
InitRefusal ==
    /\ NoApp
    /\ NoSystemRun
    /\ NoBuilderCall
    /\ NoChunkCall
    /\ NoProcessCall
    /\ NoIngestRun
    /\ rCategory \in CategoryCodes
    /\ rOp = "none"
    /\ rMessage = <<>>

CallGetRefusalMessage ==
    /\ rOp = "none"
    /\ rMessage' = GetRefusalMessage(rCategory)
    /\ rOp' = "GetRefusalMessage"
    /\ UNCHANGED <<appVars, guardVars, sysVars, chunkVars, processVars, ingestVars,
                   builderVars, rCategory>>

NextRefusal ==
    \/ CallGetRefusalMessage

SpecRefusal == InitRefusal /\ [][NextRefusal]_vars

\* Processor.chunkText(text, maxTokens, overlap) is about to be called
InitChunk ==
    /\ NoApp
    /\ NoSystemRun
    /\ NoBuilderCall
    /\ NoRefusalCall
    /\ NoProcessCall
    /\ NoIngestRun
    /\ kText \in Texts
    /\ \E x \in ChunkParams : kMaxTokens = x[1] /\ kOverlap = x[2]
    /\ kOp = "none"
    /\ kChunks = <<>>

CallChunkText ==
    /\ kOp = "none"
    /\ kChunks' = chunkText(kText, kMaxTokens, kOverlap)
    /\ kOp' = "chunkText"
    /\ UNCHANGED <<appVars, guardVars, sysVars, refusalVars, processVars, ingestVars,
                   builderVars, kText, kMaxTokens, kOverlap>>

NextChunk ==
    \/ CallChunkText

SpecChunk == InitChunk /\ [][NextChunk]_vars

\* Processor.chunkText is about to be called with arguments that the
\* configuration would not let through
InitChunkAny ==
    /\ NoApp
    /\ NoSystemRun
    /\ NoBuilderCall
    /\ NoRefusalCall
    /\ NoProcessCall
    /\ NoIngestRun
    /\ kText \in DegenerateTexts
    /\ \E x \in AnyChunkParams : kMaxTokens = x[1] /\ kOverlap = x[2]
    /\ kOp = "none"
    /\ kChunks = <<>>

SpecChunkAny == InitChunkAny /\ [][NextChunk]_vars

\* no Processor.Process call has been made
InitProcess ==
    /\ NoApp
    /\ NoSystemRun
    /\ NoBuilderCall
    /\ NoRefusalCall
    /\ NoChunkCall
    /\ NoProcessCall
    /\ NoIngestRun

\* Processor.Process(ctx, reader, source) on some processor
CallProcess ==
    /\ pCalls < MaxProcessCalls
    /\ \E p \in Processors, f \in ProcessFiles, source \in DocumentSources :
          LET r == Process(p, f, source)
          IN  pCall' = [processor |-> p, file |-> f, source |-> source,
                        documents |-> r.documents, err |-> r.err]
    /\ pPrev' = pCall
    /\ pCalls' = pCalls + 1
    /\ UNCHANGED <<appVars, guardVars, sysVars, refusalVars, chunkVars, ingestVars,
                   builderVars>>

NextProcess ==
    \/ CallProcess

SpecProcess == InitProcess /\ [][NextProcess]_vars

\* the ingest command is started with some configuration file and flags
InitIngest ==
    /\ NoApp
    /\ NoSystemRun
    /\ NoBuilderCall
    /\ NoRefusalCall
    /\ NoChunkCall
    /\ NoProcessCall
    /\ iConfig \in ChunkSettings
    /\ iFlags \in IngestFlags
    /\ iOp = "start"
    /\ iProcessor = NoProcessor

\* runIngest: app.New loads and validates the configuration
LoadConfig ==
    /\ iOp = "start"
    /\ iOp' = IF validate(iConfig) = Nil THEN "loaded" ELSE "rejected"
    /\ UNCHANGED <<appVars, guardVars, sysVars, refusalVars, chunkVars, processVars,
                   builderVars, iConfig, iFlags, iProcessor>>

\* runIngest: IngestFile is called with the flag values for a file
RunIngestFile ==
    /\ iOp = "loaded"
    /\ iProcessor' = IngestFile(iConfig, iFlags.chunkSize, iFlags.overlap)
    /\ iOp' = "ingested"
    /\ UNCHANGED <<appVars, guardVars, sysVars, refusalVars, chunkVars, processVars,
                   builderVars, iConfig, iFlags>>

NextIngest ==
    \/ LoadConfig
    \/ RunIngestFile

SpecIngest == InitIngest /\ [][NextIngest]_vars

\* no function but a Builder method is called directly
OnlyBuilder ==
    /\ NoApp
    /\ NoSystemRun
    /\ NoRefusalCall
    /\ NoChunkCall
    /\ NoProcessCall
    /\ NoIngestRun

\* Builder.FormatResponse(response, sources) is about to be called
InitFormat ==
    /\ OnlyBuilder
    /\ bBuilder = [systemPromptPath |-> <<>>, systemPrompt |-> <<>>]
    /\ bFile = Unreadable
    /\ bText \in Responses
    /\ bDocs \in SourceLists
    /\ FreshBuilder

CallFormatResponse ==
    /\ bOp = "none"
    /\ bOut' = FormatResponse(bText, bDocs)
    /\ bOp' = "FormatResponse"
    /\ UNCHANGED <<appVars, guardVars, sysVars, refusalVars, chunkVars, processVars,
                   ingestVars, bBuilder, bFile, bText, bDocs, bAgain, bFirst,
                   bPrevOk, bCalls>>

\* the formatted answer is formatted once more, without sources
CallFormatResponseAgain ==
    /\ bOp = "FormatResponse"
    /\ bAgain' = FormatResponse(bOut, <<>>)
    /\ bOp' = "FormatResponse again"
    /\ UNCHANGED <<appVars, guardVars, sysVars, refusalVars, chunkVars, processVars,
                   ingestVars, bBuilder, bFile, bText, bDocs, bOut, bFirst,
                   bPrevOk, bCalls>>

NextFormat ==
    \/ CallFormatResponse
    \/ CallFormatResponseAgain

SpecFormat == InitFormat /\ [][NextFormat]_vars

\* Builder.BuildRAGPrompt(query, context) is about to be called
InitRAGPrompt ==
    /\ OnlyBuilder
    /\ bBuilder = [systemPromptPath |-> <<>>, systemPrompt |-> <<>>]
    /\ bFile = Unreadable
    /\ bText \in Queries
    /\ bDocs \in SourceLists
    /\ FreshBuilder

CallBuildRAGPrompt ==
    /\ bOp = "none"
    /\ bOut' = BuildRAGPrompt(bText, bDocs)
    /\ bOp' = "BuildRAGPrompt"
    /\ UNCHANGED <<appVars, guardVars, sysVars, refusalVars, chunkVars, processVars,
                   ingestVars, bBuilder, bFile, bText, bDocs, bAgain, bFirst,
                   bPrevOk, bCalls>>

NextRAGPrompt ==
    \/ CallBuildRAGPrompt

SpecRAGPrompt == InitRAGPrompt /\ [][NextRAGPrompt]_vars

\* prompt.NewBuilder(systemPromptPath), with the prompt file in some state
InitSystemPrompt ==
    /\ OnlyBuilder
    /\ bBuilder \in NewBuilders
    /\ bFile \in BuilderFiles
    /\ bText = <<>>
    /\ bDocs = <<>>
    /\ FreshBuilder

\* Builder.BuildSystemPrompt()
CallBuildSystemPrompt ==
    /\ bCalls < MaxPromptCalls
    /\ bCalls' = bCalls + 1
    /\ LET r == BuildSystemPrompt(bBuilder, bFile)
       IN  /\ bBuilder' = r.builder
           /\ bOut' = [value |-> r.value, err |-> r.err, read |-> r.read]
           /\ bFirst' = IF bFirst = NotLoaded /\ r.err = Nil
                        THEN [value |-> r.value]
                        ELSE bFirst
    /\ bPrevOk' = (bFirst # NotLoaded)
    /\ bOp' = "BuildSystemPrompt"
    /\ UNCHANGED <<appVars, guardVars, sysVars, refusalVars, chunkVars, processVars,
                   ingestVars, bFile, bText, bDocs, bAgain>>

\* the prompt file is edited, removed or created between two calls
ChangeBuilderFile ==
    /\ \E f \in BuilderFiles \ {bFile} : bFile' = f
    /\ UNCHANGED <<appVars, guardVars, sysVars, refusalVars, chunkVars, processVars,
                   ingestVars, bBuilder, bOp, bText, bDocs, bOut, bAgain, bFirst,
                   bPrevOk, bCalls>>

NextSystemPrompt ==
    \/ CallBuildSystemPrompt
    \/ ChangeBuilderFile

SpecSystemPrompt == InitSystemPrompt /\ [][NextSystemPrompt]_vars

\* ------------------------------------------------------------------------
\* internal/prompt: BuildSystemPrompt called by concurrent queries on the one
\* Builder of an App. The Builder has no lock, so the accesses to its
\* systemPrompt field race. A Go string is two words, a data pointer and a
\* length, and neither the assignment nor the read of the field is atomic:
\* each word is stored and loaded on its own, in an order the compiler picks.
\* ------------------------------------------------------------------------

ConcurrentQueries == 1..MaxQueries

\* data pointers: nil, the static default prompt, and (q) the buffer that the
\* os.ReadFile call of query q returned
NilPointer == 0

StaticDefault == -1

\* the bytes a data pointer points to
Pointee(ptr) ==
    IF ptr = StaticDefault THEN getDefaultSystemPrompt ELSE xFile.content

\* a string header no assignment wrote: no data behind a non-zero length
Torn == <<"(torn)">>

\* the string that the two words denote
StringOf(ptr, len) ==
    IF len = 0 THEN <<>>
    ELSE IF ptr = NilPointer THEN Torn
    ELSE SubSeq(Pointee(ptr), 1, len)

\* no word in the registers of a query
Unset == -2

NoWords == [ptr |-> Unset, len |-> Unset]

\* a query has returned from BuildSystemPrompt
Returned(q) == xPc[q] = "returned"

\* queries are about to call BuildSystemPrompt on a new shared Builder
InitRace ==
    /\ NoApp
    /\ NoGuardCall
    /\ NoRefusalCall
    /\ NoChunkCall
    /\ NoProcessCall
    /\ NoIngestRun
    /\ NoBuilderCall
    /\ NoStream
    /\ NoStore
    /\ \E b \in NewBuilders : xPath = b.systemPromptPath
    /\ xFile \in BuilderFiles
    /\ xPtr = NilPointer
    /\ xLen = 0
    /\ xPc = [q \in ConcurrentQueries |-> "call"]
    /\ xLocal = [q \in ConcurrentQueries |-> NoWords]
    /\ xRet = [q \in ConcurrentQueries |-> [none |-> TRUE]]

\* if b.systemPrompt != "": the comparison with the empty string tests the
\* length word
RaceCheckCache(q) ==
    /\ xPc[q] = "call"
    /\ xPc' = [xPc EXCEPT ![q] = IF xLen # 0 THEN "load"
                                  ELSE IF xPath # <<>> THEN "readFile"
                                  ELSE "store"]
    /\ xLocal' = [xLocal EXCEPT ![q] =
                     IF xLen = 0 /\ xPath = <<>>
                     THEN [ptr |-> StaticDefault, len |-> Len(getDefaultSystemPrompt)]
                     ELSE NoWords]
    /\ UNCHANGED <<raceFrame, xPath, xFile, xPtr, xLen, xRet>>

\* content, err := os.ReadFile(b.systemPromptPath), and the error return
RaceReadFile(q) ==
    /\ xPc[q] = "readFile"
    /\ IF ~xFile.readable
       THEN /\ xPc' = [xPc EXCEPT ![q] = "returned"]
            /\ xRet' = [xRet EXCEPT ![q] =
                  [value |-> <<>>,
                   err |-> Wrap("failed to read system prompt file",
                                <<"open: no such file">>)]]
            /\ UNCHANGED xLocal
       ELSE /\ xPc' = [xPc EXCEPT ![q] = "store"]
            /\ xLocal' = [xLocal EXCEPT ![q] =
                  [ptr |-> q, len |-> Len(xFile.content)]]
            /\ UNCHANGED xRet
    /\ UNCHANGED <<raceFrame, xPath, xFile, xPtr, xLen>>

\* b.systemPrompt = ...: one of the two words is stored
RaceStoreWord(q) ==
    /\ xPc[q] = "store"
    /\ \/ /\ xLocal[q].ptr # Unset
          /\ xPtr' = xLocal[q].ptr
          /\ xLocal' = [xLocal EXCEPT ![q].ptr = Unset]
          /\ UNCHANGED xLen
       \/ /\ xLocal[q].len # Unset
          /\ xLen' = xLocal[q].len
          /\ xLocal' = [xLocal EXCEPT ![q].len = Unset]
          /\ UNCHANGED xPtr
    /\ xPc' = [xPc EXCEPT ![q] = IF xLocal'[q] = NoWords THEN "load" ELSE "store"]
    /\ UNCHANGED <<raceFrame, xPath, xFile, xRet>>

\* return b.systemPrompt, nil: one of the two words is loaded
RaceLoadWord(q) ==
    /\ xPc[q] = "load"
    /\ \/ /\ xLocal[q].ptr = Unset
          /\ xLocal' = [xLocal EXCEPT ![q].ptr = xPtr]
       \/ /\ xLocal[q].len = Unset
          /\ xLocal' = [xLocal EXCEPT ![q].len = xLen]
    /\ xPc' = [xPc EXCEPT ![q] =
                 IF xLocal'[q].ptr # Unset /\ xLocal'[q].len # Unset
                 THEN "return" ELSE "load"]
    /\ UNCHANGED <<raceFrame, xPath, xFile, xPtr, xLen, xRet>>

\* the caller receives the string made of the two words
RaceReturn(q) ==
    /\ xPc[q] = "return"
    /\ xRet' = [xRet EXCEPT ![q] =
                  [value |-> StringOf(xLocal[q].ptr, xLocal[q].len), err |-> Nil]]
    /\ xPc' = [xPc EXCEPT ![q] = "returned"]
    /\ UNCHANGED <<raceFrame, xPath, xFile, xPtr, xLen, xLocal>>

NextRace ==
    \/ \E q \in ConcurrentQueries : RaceCheckCache(q)
    \/ \E q \in ConcurrentQueries : RaceReadFile(q)
    \/ \E q \in ConcurrentQueries : RaceStoreWord(q)
    \/ \E q \in ConcurrentQueries : RaceLoadWord(q)
    \/ \E q \in ConcurrentQueries : RaceReturn(q)

SpecRace == InitRace /\ [][NextRace]_vars

\* ------------------------------------------------------------------------
\* internal/backend: GenerateStream of the ollama and the llamacpp client.
\* The model starts where GenerateStream has returned the channel and the
\* producer goroutine is about to run; the caller may cancel its context, and
\* the consumer receives from the channel until it decides to stop.
\* ------------------------------------------------------------------------

\* make(chan types.StreamToken, 10)
StreamBuffer == 10

\* types.StreamToken
StreamToken(text, done, error) == [Text |-> text, Done |-> done, Error |-> error]

\* ctx.Err() of a cancelled context
Canceled == <<"context canceled">>

\* the i-th word of a prompt, the i-th text of a response
StreamWord(i) == <<"w">> \o Itoa(i)

\* the prompts handed to the llamacpp stub: 0, 1, ... words
StreamPrompts ==
    { Join([i \in 1..n |-> StreamWord(i)], <<" ">>) : n \in 0..MaxStreamItems }

\* fmt.Sprintf("... llamacpp streaming stub for: %s", prompt); the format
\* starts with the nine bytes C3 B0 C5 B8 E2 80 9D C2 A7 of the source
StubResponse(prompt) ==
    <<"Ã","°","Å","¸","â","","","Â","§",
      " ","l","l","a","m","a","c","p","p"," ","s","t","r","e","a","m","i","n","g",
      " ","s","t","u","b"," ","f","o","r",":"," ">> \o prompt

\* the lines of an ollama response body
EmptyLine == [kind |-> "empty", Response |-> <<>>, Done |-> FALSE]

BadLine == [kind |-> "bad", Response |-> <<>>, Done |-> FALSE]

JsonLine(text, done) == [kind |-> "json", Response |-> text, Done |-> done]

\* how an ollama response body ends after its text lines: at once, with the
\* done line, with a line that is not JSON, with an empty line before the
\* done line, with a done line that carries text, with a line after the
\* done line
BodyTails ==
    { <<>>,
      <<JsonLine(<<>>, TRUE)>>,
      <<BadLine, JsonLine(<<"z">>, FALSE)>>,
      <<EmptyLine, JsonLine(<<>>, TRUE)>>,
      <<JsonLine(<<"e","n","d">>, TRUE)>>,
      <<JsonLine(<<>>, TRUE), JsonLine(<<"z">>, FALSE)>> }

\* the response bodies the ollama server sends
StreamBodies ==
    { [i \in 1..n |-> JsonLine(StreamWord(i), FALSE)] \o tail :
        n \in 0..MaxStreamItems, tail \in BodyTails }

\* GenerateStream has returned the channel
InitStream ==
    /\ NoApp
    /\ NoGuardCall
    /\ NoRefusalCall
    /\ NoChunkCall
    /\ NoProcessCall
    /\ NoIngestRun
    /\ NoBuilderCall
    /\ NoRace
    /\ NoStore
    /\ \/ /\ sBackend = "ollama"
          /\ sBody \in StreamBodies
          /\ sScanErr \in BOOLEAN
       \/ /\ sBackend = "llamacpp"
          /\ \E prompt \in StreamPrompts : sBody = Fields(StubResponse(prompt))
          /\ sScanErr = FALSE
    /\ sPos = 0
    /\ sPc = "next"
    /\ sTok = NoToken
    /\ sThen = "none"
    /\ sChan = <<>>
    /\ sClosed = FALSE
    /\ sCtx = "live"
    /\ sObserved = FALSE
    /\ sSent = <<>>
    /\ sRecv = <<>>
    /\ sConsumer = "receiving"

\* the producer is about to send token tok and to go to position then
ToSend(tok, then) ==
    /\ sTok' = tok
    /\ sThen' = then
    /\ sPc' = "send"

\* ollama: for scanner.Scan() { ... } and the scanner.Err() test after the
\* loop. The body is read from the HTTP response of a request made with the
\* caller's context, so once the context is cancelled a read may fail with
\* the context's error.
OllamaScan ==
    /\ sBackend = "ollama"
    /\ sPc = "next"
    /\ \/ /\ sPos < Len(sBody)
          /\ sPos' = sPos + 1
          /\ sPc' = "select"
          /\ UNCHANGED <<sTok, sThen, sObserved>>
       \/ /\ sPos = Len(sBody)
          /\ IF sScanErr
             THEN ToSend(StreamToken(<<>>, FALSE,
                           Wrap("failed to scan response", <<"unexpected EOF">>)),
                         "exit")
             ELSE sPc' = "exit" /\ UNCHANGED <<sTok, sThen>>
          /\ UNCHANGED <<sPos, sObserved>>
       \/ /\ sCtx = "cancelled"
          /\ ToSend(StreamToken(<<>>, FALSE,
                        Wrap("failed to scan response", Canceled)), "exit")
          /\ sObserved' = TRUE
          /\ UNCHANGED sPos
    /\ UNCHANGED <<streamFrame, sBackend, sBody, sScanErr, sChan, sClosed, sCtx,
                   sSent, sRecv, sConsumer>>

\* the select as it would be if the cancellation were noticed without leaving
\* the loop
SelectDone_keepsGoing(otherwise) ==
    /\ otherwise
    /\ sObserved' = (sCtx = "cancelled")

\* select { case <-ctx.Done(): tokens <- StreamToken{Error: ctx.Err()}; return
\*          default: }
SelectDone(otherwise) ==
    IF sCtx = "cancelled"
    THEN /\ ToSend(StreamToken(<<>>, FALSE, Canceled), "exit")
         /\ sObserved' = TRUE
    ELSE /\ otherwise
         /\ UNCHANGED sObserved

\* ollama: the select at the head of the loop body
OllamaSelect ==
    /\ sBackend = "ollama"
    /\ sPc = "select"
    /\ SelectDone(sPc' = "decode" /\ UNCHANGED <<sTok, sThen>>)
    /\ UNCHANGED <<streamFrame, sBackend, sBody, sScanErr, sPos, sChan, sClosed,
                   sCtx, sSent, sRecv, sConsumer>>

\* the loop body as it would be without the return after the done token
OllamaDecode_noReturnWhenDone ==
    /\ sBackend = "ollama"
    /\ sPc = "decode"
    /\ LET line == sBody[sPos]
       IN  IF line.kind = "empty"
           THEN sPc' = "next" /\ UNCHANGED <<sTok, sThen>>
           ELSE IF line.kind = "bad"
           THEN ToSend(StreamToken(<<>>, FALSE,
                         Wrap("failed to decode streaming response",
                              <<"invalid character">>)), "exit")
           ELSE ToSend(StreamToken(line.Response, line.Done, Nil), "next")
    /\ UNCHANGED <<streamFrame, sBackend, sBody, sScanErr, sPos, sChan, sClosed,
                   sCtx, sObserved, sSent, sRecv, sConsumer>>

\* ollama: line := scanner.Text(), json.Unmarshal, and the token built of it
OllamaDecode ==
    /\ sBackend = "ollama"
    /\ sPc = "decode"
    /\ LET line == sBody[sPos]
       IN  IF line.kind = "empty"
           THEN sPc' = "next" /\ UNCHANGED <<sTok, sThen>>
           ELSE IF line.kind = "bad"
           THEN ToSend(StreamToken(<<>>, FALSE,
                         Wrap("failed to decode streaming response",
                              <<"invalid character">>)), "exit")
           ELSE ToSend(StreamToken(line.Response, line.Done, Nil),
                       IF line.Done THEN "exit" ELSE "next")
    /\ UNCHANGED <<streamFrame, sBackend, sBody, sScanErr, sPos, sChan, sClosed,
                   sCtx, sObserved, sSent, sRecv, sConsumer>>

\* llamacpp: for _, word := range words { ... } and the done token after it
LlamaRange ==
    /\ sBackend = "llamacpp"
    /\ sPc = "next"
    /\ IF sPos < Len(sBody)
       THEN /\ sPos' = sPos + 1
            /\ sPc' = "select"
            /\ UNCHANGED <<sTok, sThen>>
       ELSE /\ ToSend(StreamToken(<<>>, TRUE, Nil), "exit")
            /\ UNCHANGED sPos
    /\ UNCHANGED <<streamFrame, sBackend, sBody, sScanErr, sChan, sClosed, sCtx,
                   sObserved, sSent, sRecv, sConsumer>>

\* llamacpp: the select in the loop body, and the token of the word
LlamaSelect ==
    /\ sBackend = "llamacpp"
    /\ sPc = "select"
    /\ SelectDone(ToSend(StreamToken(sBody[sPos] \o <<" ">>, FALSE, Nil), "next"))
    /\ UNCHANGED <<streamFrame, sBackend, sBody, sScanErr, sPos, sChan, sClosed,
                   sCtx, sSent, sRecv, sConsumer>>

\* tokens <- token: blocks while the buffer is full
StreamSend ==
    /\ sPc = "send"
    /\ Len(sChan) < StreamBuffer
    /\ sChan' = Append(sChan, sTok)
    /\ sSent' = Append(sSent, sTok)
    /\ sPc' = sThen
    /\ UNCHANGED <<streamFrame, sBackend, sBody, sScanErr, sPos, sTok, sThen,
                   sClosed, sCtx, sObserved, sRecv, sConsumer>>

\* the goroutine returns: defer close(tokens)
StreamClose ==
    /\ sPc = "exit"
    /\ sClosed' = TRUE
    /\ sPc' = "done"
    /\ UNCHANGED <<streamFrame, sBackend, sBody, sScanErr, sPos, sTok, sThen,
                   sChan, sCtx, sObserved, sSent, sRecv, sConsumer>>

\* the consumer receives the next token
StreamReceive ==
    /\ sConsumer = "receiving"
    /\ sChan # <<>>
    /\ sRecv' = Append(sRecv, Head(sChan))
    /\ sChan' = Tail(sChan)
    /\ UNCHANGED <<streamFrame, sBackend, sBody, sScanErr, sPos, sPc, sTok, sThen,
                   sClosed, sCtx, sObserved, sSent, sConsumer>>

\* the consumer stops receiving
StreamConsumerStop ==
    /\ sConsumer = "receiving"
    /\ sConsumer' = "stopped"
    /\ UNCHANGED <<streamFrame, sBackend, sBody, sScanErr, sPos, sPc, sTok, sThen,
                   sChan, sClosed, sCtx, sObserved, sSent, sRecv>>

\* the caller cancels the context
StreamCancel ==
    /\ sCtx = "live"
    /\ sPc # "none"
    /\ sCtx' = "cancelled"
    /\ UNCHANGED <<streamFrame, sBackend, sBody, sScanErr, sPos, sPc, sTok, sThen,
                   sChan, sClosed, sObserved, sSent, sRecv, sConsumer>>

NextStream ==
    \/ OllamaScan
    \/ OllamaSelect
    \/ OllamaDecode
    \/ LlamaRange
    \/ LlamaSelect
    \/ StreamSend
    \/ StreamClose
    \/ StreamReceive
    \/ StreamConsumerStop
    \/ StreamCancel

SpecStream == InitStream /\ [][NextStream]_vars

\* ------------------------------------------------------------------------
\* internal/rag, internal/app, internal/cli: the ingest and the reset
\* command and the Qdrant collections they write to
\* ------------------------------------------------------------------------

\* viper.SetDefault("collection", "pawdy_docs")
Configured == <<"p","a","w","d","y","_","d","o","c","s">>

\* the collections of the Qdrant server: the configured one and another one
Collections == { Configured, <<"o","t","h","e","r">> }

\* a collection that does not exist, and one that exists without points
Absent == [exists |-> FALSE, points |-> <<>>]

Empty == [exists |-> TRUE, points |-> <<>>]

Reverse(s) == [i \in 1..Len(s) |-> s[Len(s) + 1 - i]]

\* last index of character c in s, 0 if there is none
LastIndex(s, c) ==
    LET at == { i \in 1..Len(s) : s[i] = c }
    IN  IF at = {} THEN 0 ELSE CHOOSE i \in at : \A j \in at : j <= i

\* filepath.Base: "." for the empty path, "/" for a path of slashes, else
\* the last element of the path without trailing slashes
Base(path) ==
    IF path = <<>> THEN <<".">>
    ELSE LET e == Len(path) + 1 - SkipWhile(Reverse(path), 1, {"/"})
         IN  IF e = 0 THEN <<"/">>
             ELSE SubSeq(path, LastIndex(SubSeq(path, 1, e), "/") + 1, e)

\* filepath.Ext: the text from the last "." of the last element on
Ext(path) ==
    IF LastIndex(path, ".") > LastIndex(path, "/")
    THEN SubSeq(path, LastIndex(path, "."), Len(path))
    ELSE <<>>

\* extractTitle
extractTitle(filePath) ==
    LET base  == Base(filePath)
        name  == SubSeq(base, 1, Len(base) - Len(Ext(base)))
        plain == [i \in 1..Len(name) |->
                    IF name[i] \in {"_", "-"} THEN " " ELSE name[i]]
        words == Fields(plain)
    IN  Join([j \in 1..Len(words) |->
                ToUpper(SubSeq(words[j], 1, 1))
                  \o ToLower(SubSeq(words[j], 2, Len(words[j])))],
             <<" ">>)

\* document.ProcessFile; f is the file at the path: the error of os.Stat,
\* the error of os.Open, its content
ProcessFile(f, chunkTokens, chunkOverlap) ==
    IF f.stat # Nil
    THEN [documents |-> <<>>, err |-> Wrap("failed to get file info", f.stat)]
    ELSE IF f.err # Nil
    THEN [documents |-> <<>>, err |-> Wrap("failed to open file", f.err)]
    ELSE Process([chunkTokens |-> chunkTokens, chunkOverlap |-> chunkOverlap],
                 [content |-> f.content, err |-> Nil],
                 [Path |-> f.path, Title |-> extractTitle(f.path),
                  Type |-> Ext(f.path), Size |-> Len(f.content), Modified |-> 0])

\* t.Format(time.RFC3339) of a modification time
RFC3339(t) == <<"T">> \o Itoa(t) \o <<"Z">>

\* AddDocuments: the point built for docs[i] (i counted from 0)
PointStruct(i, doc) ==
    [Id      |-> i + 1,
     Vectors |-> [embedding |-> doc.Content],
     Payload |-> [content      |-> doc.Content,
                  path         |-> doc.Metadata.path,
                  title        |-> doc.Metadata.title,
                  type         |-> doc.Metadata.type,
                  size         |-> doc.Metadata.size,
                  modified     |-> RFC3339(doc.Metadata.modified),
                  chunk_id     |-> doc.Metadata.chunk_id,
                  total_chunks |-> doc.Metadata.total_chunks]]

\* Qdrant's Upsert: each point is stored under its id, replacing the point
\* that had this id
Upsert(points, new) ==
    [id \in (DOMAIN points) \cup { new[k].Id : k \in DOMAIN new } |->
        IF \E k \in DOMAIN new : new[k].Id = id
        THEN new[CHOOSE k \in DOMAIN new :
                   new[k].Id = id /\ \A j \in DOMAIN new : new[j].Id = id => j <= k]
        ELSE points[id]]

\* QdrantRetriever.AddDocuments on the retriever of the given collection;
\* outcome says whether the embedder and the Qdrant server work
AddDocuments(store, collection, docs, outcome) ==
    IF Len(docs) = 0 THEN [store |-> store, err |-> Nil]
    ELSE IF outcome = "embed"
    THEN [store |-> store,
          err |-> Wrap("failed to generate embeddings", <<"embedder down">>)]
    ELSE IF outcome = "upsert" \/ ~store[collection].exists
    THEN [store |-> store,
          err |-> Wrap("failed to upsert points to Qdrant", <<"qdrant down">>)]
    ELSE LET points == [k \in 1..Len(docs) |-> PointStruct(k - 1, docs[k])]
         IN  [store |-> [store EXCEPT
                           ![collection].points = Upsert(@, points)],
              err |-> Nil]

\* the error of a request to a server that does not answer
Unavailable == <<"rpc error: code = Unavailable">>

\* r.client.CollectionExists, one request to the Qdrant server; ok says
\* whether the server answers
CollectionExists(store, collection, ok) ==
    IF ok THEN [exists |-> store[collection].exists, err |-> Nil]
    ELSE [exists |-> FALSE,
          err |-> Wrap("failed to check collection existence", Unavailable)]

\* r.client.CreateCollection, one request
CreateCollection(store, collection, ok) ==
    IF ok /\ ~store[collection].exists
    THEN [store |-> [store EXCEPT ![collection] = Empty], err |-> Nil]
    ELSE [store |-> store,
          err |-> Wrap("failed to create collection", Unavailable)]

\* r.client.DeleteCollection, one request
clientDeleteCollection(store, collection, ok) ==
    IF ok
    THEN [store |-> [store EXCEPT ![collection] = Absent], err |-> Nil]
    ELSE [store |-> store,
          err |-> Wrap("failed to delete collection", Unavailable)]

\* App.Reset(ctx, collection): the collection whose deletion it asks for is
\* r.collection of the App's retriever, the configured one
Reset(collection) == Configured

\* App.IngestFile as a whole: the chunk count and the error it returns (the
\* value Panic(v) for err when the call panics instead of returning), the
\* store afterwards, the documents Process made, and whether AddDocuments
\* was called
IngestFileCall(config, store, f, chunkTokens, chunkOverlap, outcome) ==
    LET set == IngestFile(config, chunkTokens, chunkOverlap)
        Added(a, docs) ==
            IF a.err # Nil
            THEN [n |-> 0, err |-> Wrap("failed to add documents", a.err),
                  store |-> a.store, documents |-> docs, added |-> TRUE]
            ELSE [n |-> Len(docs), err |-> Nil, store |-> a.store,
                  documents |-> docs, added |-> TRUE]
        AfterProcessFile(r) ==
            IF IsPanic(r.err)
            THEN [n |-> 0, err |-> r.err, store |-> store, documents |-> <<>>,
                  added |-> FALSE]
            ELSE IF r.err # Nil
            THEN [n |-> 0, err |-> Wrap("failed to process file", r.err),
                  store |-> store, documents |-> r.documents, added |-> FALSE]
            ELSE Added(AddDocuments(store, Configured, r.documents, outcome),
                       r.documents)
    IN  AfterProcessFile(ProcessFile(f, set.chunkTokens, set.chunkOverlap))

\* runIngest: the files of the directory walk it keeps
Supported(path) ==
    ToLower(Ext(path)) \in
        { <<".","m","d">>, <<".","t","x","t">>, <<".","p","d","f">>,
          <<".","h","t","m","l">> }

\* the configuration of the commands: chunk_tokens 100, chunk_overlap 0
CommandConfig == [ChunkTokens |-> 100, ChunkOverlap |-> 0]

\* what a file of the directory can be: a.md with three words and markup,
\* with white space only, or with an image only; b.txt with four words, unreadable, or a link to
\* nothing; h.html without text; n.png
FileStates ==
    [a |-> { [path |-> <<"a",".","m","d">>, stat |-> Nil, err |-> Nil,
              content |-> <<"#"," ","a","\n","*","*","b","c","*","*","\n","d","e","f">>],
             [path |-> <<"a",".","m","d">>, stat |-> Nil, err |-> Nil,
              content |-> <<" ","\n","">>],
             [path |-> <<"a",".","m","d">>, stat |-> Nil, err |-> Nil,
              content |-> <<"!","[","]","(","u",")">>] },
     b |-> { [path |-> <<"b",".","t","x","t">>, stat |-> Nil, err |-> Nil,
              content |-> <<"g","h","i","j","k"," ","d","e","f","\n","a"," ","b","c">>],
             [path |-> <<"b",".","t","x","t">>, stat |-> Nil,
              err |-> <<"permission denied">>, content |-> <<>>],
             [path |-> <<"b",".","t","x","t">>,
              stat |-> <<"no such file or directory">>, err |-> Nil,
              content |-> <<>>] },
     h |-> { [path |-> <<"h",".","h","t","m","l">>, stat |-> Nil, err |-> Nil,
              content |-> <<" ">>] },
     n |-> { [path |-> <<"n",".","p","n","g">>, stat |-> Nil, err |-> Nil,
              content |-> <<"x">>] }]

\* the directories handed to the ingest command, as filepath.Walk lists them
Directories ==
    { a \o b \o h \o n : a \in { <<>> } \cup { <<f>> : f \in FileStates.a },
                         b \in { <<>> } \cup { <<f>> : f \in FileStates.b },
                         h \in { <<>> } \cup { <<f>> : f \in FileStates.h },
                         n \in { <<>> } \cup { <<f>> : f \in FileStates.n } }

\* the --chunk-size and --overlap flags of the ingest command
CommandFlags ==
    { [chunkSize |-> 1, overlap |-> 0], [chunkSize |-> 2, overlap |-> 1] }

\* whether the embedder and the Qdrant server work during a call
Outcomes == { "ok", "embed", "upsert" }

\* the ingest command is about to be started, the server has no collection
InitIngestRun ==
    /\ NoApp
    /\ NoGuardCall
    /\ NoRefusalCall
    /\ NoChunkCall
    /\ NoProcessCall
    /\ NoIngestRun
    /\ NoBuilderCall
    /\ NoRace
    /\ NoStream
    /\ NoResetCommand
    /\ qStore = [c \in Collections |-> Absent]
    /\ nDir = <<>>
    /\ nFlags = [chunkSize |-> 0, overlap |-> 0]
    /\ nPos = 0
    /\ nOp = "start"
    /\ nReports = <<>>
    /\ nTotal = 0
    /\ nRuns = 0

\* the ingest command has ended: it returned nil or an error, or panicked
IngestEnded == nOp \in {"done", "failed", "panicked"}

\* runIngest is called: the test that the directory exists; nRuns counts the
\* calls
IngestStart ==
    /\ nOp = "start" \/ IngestEnded
    /\ nRuns < MaxIngestRuns
    /\ nRuns' = nRuns + 1
    /\ \E exists \in BOOLEAN : nOp' = IF exists THEN "new" ELSE "failed"
    /\ nDir' = <<>>
    /\ nFlags' = [chunkSize |-> 0, overlap |-> 0]
    /\ nPos' = 0
    /\ nReports' = <<>>
    /\ nTotal' = 0
    /\ UNCHANGED <<storeFrame, qStore, zFlags, zAnswer, zOp, zBefore>>

\* runIngest, app.New, ensureCollection: the request CollectionExists
IngestNewExists ==
    /\ nOp = "new"
    /\ \E ok \in BOOLEAN :
          LET r == CollectionExists(qStore, Configured, ok)
          IN  nOp' = IF r.err # Nil THEN "failed"
                     ELSE IF r.exists THEN "walk" ELSE "create"
    /\ UNCHANGED <<storeFrame, qStore, nDir, nFlags, nPos, nReports, nTotal,
                   nRuns, zFlags, zAnswer, zOp, zBefore>>

\* runIngest, app.New, ensureCollection: the request CreateCollection
IngestNewCreate ==
    /\ nOp = "create"
    /\ \E ok \in BOOLEAN :
          LET r == CreateCollection(qStore, Configured, ok)
          IN  /\ qStore' = r.store
              /\ nOp' = IF r.err # Nil THEN "failed" ELSE "walk"
    /\ UNCHANGED <<storeFrame, nDir, nFlags, nPos, nReports, nTotal, nRuns,
                   zFlags, zAnswer, zOp, zBefore>>

\* runIngest: the flags and the directory walk, which can fail
IngestWalk ==
    /\ nOp = "walk"
    /\ nFlags' \in CommandFlags
    /\ \E d \in Directories, walked \in BOOLEAN :
          /\ nDir' = IF walked THEN SelectSeq(d, LAMBDA f : Supported(f.path))
                     ELSE <<>>
          /\ nOp' = IF ~walked THEN "failed"
                    ELSE IF nDir' = <<>> THEN "done" ELSE "ingesting"
    /\ UNCHANGED <<storeFrame, qStore, nPos, nReports, nTotal, nRuns, zFlags,
                   zAnswer, zOp, zBefore>>

\* runIngest: one turn of the loop over the files, and the end of the
\* command after the last file; a panic of IngestFile ends the command
IngestLoop ==
    /\ nOp = "ingesting"
    /\ \E outcome \in Outcomes :
          LET f == nDir[nPos + 1]
              Turn(r) ==
                  IF IsPanic(r.err)
                  THEN /\ nOp' = "panicked"
                       /\ UNCHANGED <<qStore, nReports, nTotal, nPos>>
                  ELSE /\ qStore' = r.store
                       /\ nReports' = Append(nReports,
                                        [path |-> f.path, n |-> r.n, err |-> r.err,
                                         documents |-> r.documents,
                                         added |-> r.added, before |-> qStore])
                       /\ nTotal' = IF r.err # Nil THEN nTotal ELSE nTotal + r.n
                       /\ nPos' = nPos + 1
                       /\ nOp' = IF nPos' = Len(nDir) THEN "done" ELSE "ingesting"
          IN  Turn(IngestFileCall(CommandConfig, qStore, f, nFlags.chunkSize,
                                  nFlags.overlap, outcome))
    /\ UNCHANGED <<storeFrame, nDir, nFlags, nRuns, zFlags, zAnswer, zOp, zBefore>>

runIngest ==
    \/ IngestStart
    \/ IngestNewExists
    \/ IngestNewCreate
    \/ IngestWalk
    \/ IngestLoop

SpecIngestRun == InitIngestRun /\ [][runIngest]_vars

\* fmt.Scanln(&response) on the line the user typed: the first
\* space-separated word of the line, nothing for a line without one
Scanln(line) == IF Fields(line) = <<>> THEN <<>> ELSE Fields(line)[1]

\* runReset: the test that lets the command go on past the prompt
Confirmed(flags, line) ==
    \/ flags.force
    \/ Scanln(line) \in { <<"y">>, <<"Y">>, <<"y","e","s">> }

\* what a collection of the server can be before the reset command: missing,
\* without points, or holding the three chunks of a.md ("# a", "bc", "def")
StoredCollections ==
    { Absent, Empty,
      AddDocuments([c \in Collections |-> Empty], Configured,
                   ProcessFile([path |-> <<"a",".","m","d">>, stat |-> Nil,
                                err |-> Nil,
                                content |-> <<"#"," ","a","\n","*","*","b","c",
                                              "*","*","\n","d","e","f">>],
                               1, 0).documents,
                   "ok").store[Configured] }

\* the lines typed at the prompt of the reset command
AnswerLines ==
    { <<"y">>, <<"Y">>, <<"y","e","s">>, <<"Y","E","S">>, <<"n">>, <<>>,
      <<"y","e","s"," ","n","o">> }

\* the values of the --collection flag
CollectionFlags == { <<>> } \cup Collections

\* the reset command is about to run
InitReset ==
    /\ NoApp
    /\ NoGuardCall
    /\ NoRefusalCall
    /\ NoChunkCall
    /\ NoProcessCall
    /\ NoIngestRun
    /\ NoBuilderCall
    /\ NoRace
    /\ NoStream
    /\ NoIngestCommand
    /\ qStore \in [Collections -> StoredCollections]
    /\ zFlags \in [force : BOOLEAN, collection : CollectionFlags]
    /\ zAnswer \in AnswerLines
    /\ zOp = "start"
    /\ zBefore = qStore

\* what the steps of the reset command leave as it is
resetFrame == <<storeFrame, nDir, nFlags, nPos, nOp, nReports, nTotal, nRuns,
                zFlags, zAnswer, zBefore>>

\* runReset: the prompt, unless --force is given
ResetPrompt ==
    /\ zOp = "start"
    /\ zOp' = IF Confirmed(zFlags, zAnswer) THEN "new" ELSE "cancelled"
    /\ UNCHANGED <<resetFrame, qStore>>

\* runReset, app.New, ensureCollection: the request CollectionExists
ResetNewExists ==
    /\ zOp = "new"
    /\ \E ok \in BOOLEAN :
          LET r == CollectionExists(qStore, Configured, ok)
          IN  zOp' = IF r.err # Nil THEN "failed"
                     ELSE IF r.exists THEN "delete" ELSE "create"
    /\ UNCHANGED <<resetFrame, qStore>>

\* runReset, app.New, ensureCollection: the request CreateCollection
ResetNewCreate ==
    /\ zOp = "create"
    /\ \E ok \in BOOLEAN :
          LET r == CreateCollection(qStore, Configured, ok)
          IN  /\ qStore' = r.store
              /\ zOp' = IF r.err # Nil THEN "failed" ELSE "delete"
    /\ UNCHANGED resetFrame

\* runReset, App.Reset, DeleteCollection: the request DeleteCollection
ResetDelete ==
    /\ zOp = "delete"
    /\ \E ok \in BOOLEAN :
          LET r == clientDeleteCollection(qStore, Reset(zFlags.collection), ok)
          IN  /\ qStore' = r.store
              /\ zOp' = IF r.err # Nil THEN "failed" ELSE "ensure"
    /\ UNCHANGED resetFrame

\* DeleteCollection, ensureCollection: the request CollectionExists
ResetEnsureExists ==
    /\ zOp = "ensure"
    /\ \E ok \in BOOLEAN :
          LET r == CollectionExists(qStore, Reset(zFlags.collection), ok)
          IN  zOp' = IF r.err # Nil THEN "failed"
                     ELSE IF r.exists THEN "reset" ELSE "recreate"
    /\ UNCHANGED <<resetFrame, qStore>>

\* DeleteCollection, ensureCollection: the request CreateCollection, after
\* which runReset reports success
ResetEnsureCreate ==
    /\ zOp = "recreate"
    /\ \E ok \in BOOLEAN :
          LET r == CreateCollection(qStore, Reset(zFlags.collection), ok)
          IN  /\ qStore' = r.store
              /\ zOp' = IF r.err # Nil THEN "failed" ELSE "reset"
    /\ UNCHANGED resetFrame

runReset ==
    \/ ResetPrompt
    \/ ResetNewExists
    \/ ResetNewCreate
    \/ ResetDelete
    \/ ResetEnsureExists
    \/ ResetEnsureCreate

SpecReset == InitReset /\ [][runReset]_vars

\* ------------------------------------------------------------------------
\* Properties of App.Ask (checked under Spec)
\* ------------------------------------------------------------------------

Ran(seq) == { seq[i] : i \in DOMAIN seq }

Terminal == {"DONE", "ABORT_UNSAFE", "FAILED"}

\* the gates' verdicts of the current run
InputJudgedUnsafe == inputResult # NilResult /\ ~inputResult.IsSafe

OutputJudgedUnsafe == outputResult # NilResult /\ ~outputResult.IsSafe

\* r with surrounding white space removed is "safe" in some letter case
IsSafeText(r) ==
    \E a \in 1..(Len(r) - 3) :
        /\ SkipSpaces(r, 1) = a
        /\ LowerChar(r[a]) = "s" /\ LowerChar(r[a + 1]) = "a"
        /\ LowerChar(r[a + 2]) = "f" /\ LowerChar(r[a + 3]) = "e"
        /\ SkipSpaces(r, a + 4) = Len(r) + 1

\* C1: with safety gating on, once CheckInput has judged the question unsafe
\* the run is over as a refusal: the only collaborator called is CheckInput
\* (neither Search nor Generate), the answer is the refusal message of the
\* verdict's category, there are no sources and no error.
C1_UnsafeInputShortCircuits ==
    (cfg.Safety /\ InputJudgedUnsafe) =>
        /\ pc \in {"ABORT_UNSAFE", "idle"}
        /\ "Search" \notin Ran(calls)
        /\ "Generate" \notin Ran(calls)
        /\ calls = <<"CheckInput">>
        /\ ret.answer = GetRefusalMessage(inputResult.Category)
        /\ ret.sources = <<>>
        /\ ret.err = Nil

C1_Witness ==
    /\ pc = "ABORT_UNSAFE"
    /\ cfg.Safety
    /\ InputJudgedUnsafe
    /\ inputResult.Category = <<"S","1">>
    /\ Len(ret.answer) > Len(GetRefusalMessage(<<>>))

\* C2: with safety gating on, once CheckOutput has judged the generated
\* answer unsafe the run is over as a refusal: the answer is the refusal
\* message and not the generated text, the source list is empty although
\* documents may have been retrieved, and there is no error.
C2_UnsafeOutputDiscarded ==
    (cfg.Safety /\ OutputJudgedUnsafe) =>
        /\ pc \in {"ABORT_UNSAFE", "idle"}
        /\ ret.answer = GetRefusalMessage(outputResult.Category)
        /\ ret.answer # response
        /\ ret.sources = <<>>
        /\ ret.err = Nil

C2_Witness ==
    /\ pc = "ABORT_UNSAFE"
    /\ cfg.Safety
    /\ OutputJudgedUnsafe
    /\ Len(documents) > 0
    /\ response # <<>>
    /\ ret.sources = <<>>

\* the run has returned the generator's text: no error, answer = response
ReturnedGenerated ==
    /\ pc \in Terminal
    /\ "Generate" \in Ran(calls)
    /\ ret.err = Nil
    /\ ret.answer = response

GateReplySafe(reply, result) ==
    /\ reply.err = Nil
    /\ IsSafeText(reply.text)
    /\ result # NilResult
    /\ result.IsSafe

\* C3: with safety gating on, a run that returns the generated text had the
\* classifier answer "safe" (trimmed, any case) without failure at the input
\* gate and at the output gate, and both verdicts were safe; so an unsafe
\* verdict, a response that cannot be parsed or a failed classifier call at
\* either gate never lets the generated text out.
C3_GeneratedTextOnlyIfBothSafe ==
    (cfg.Safety /\ ReturnedGenerated) =>
        /\ "CheckInput" \in Ran(calls)
        /\ "CheckOutput" \in Ran(calls)
        /\ GateReplySafe(inputReply, inputResult)
        /\ GateReplySafe(outputReply, outputResult)

C3_Witness ==
    /\ cfg.Safety
    /\ ReturnedGenerated
    /\ pc = "DONE"
    /\ response # <<>>
    /\ calls = <<"CheckInput", "Search", "BuildRAGPrompt", "BuildSystemPrompt",
                 "Generate", "CheckOutput">>

\* C4: with safety gating off, the checks are no-ops that pass: Ask never
\* invokes the classifier backend and never ends in a refusal, and the
\* guard's CheckInput and CheckOutput answer "safe" without error and
\* without calling the classifier, whatever the classifier would say.
C4_DisabledGatesAlwaysPass ==
    (~cfg.Safety) =>
        /\ guardCalls = 0
        /\ pc # "ABORT_UNSAFE"
        /\ inputResult = NilResult /\ outputResult = NilResult
        /\ \A reply \in ClassifierReplies :
              /\ CheckInput(SafetyGate, reply) =
                    [result |-> SafetyResult(TRUE, <<>>, <<>>), err |-> Nil,
                     called |-> FALSE]
              /\ CheckOutput(SafetyGate, reply) =
                    [result |-> SafetyResult(TRUE, <<>>, <<>>), err |-> Nil,
                     called |-> FALSE]

C4_Witness ==
    /\ ~cfg.Safety
    /\ pc = "DONE"
    /\ ret.answer = response
    /\ response # <<>>
    /\ calls = <<"Search", "BuildRAGPrompt", "BuildSystemPrompt", "Generate">>

\* the message Ask puts in front of the error of each collaborator
StageMessage ==
    [CheckInput        |-> "safety check failed",
     Search            |-> "failed to retrieve documents",
     BuildSystemPrompt |-> "failed to build system prompt",
     Generate          |-> "failed to generate response",
     CheckOutput       |-> "output safety check failed"]

\* C5: when a collaborator call of Ask has failed, the run is over as a
\* failure: no later stage runs, the answer is empty, there are no sources,
\* and the error is the failing stage's message followed by the cause; the
\* stage messages are pairwise different; a refusal has a nil error and a
\* non-empty text, a failure has a non-nil error, so the two differ.
C5_FailureNamesStageAndCause ==
    /\ (lastErr # Nil) =>
          /\ pc \in {"FAILED", "idle"}
          /\ calls # <<>>
          /\ calls[Len(calls)] \in DOMAIN StageMessage
          /\ ret.err = <<StageMessage[calls[Len(calls)]]>> \o lastErr
          /\ ret.answer = <<>>
          /\ ret.sources = <<>>
    /\ (pc = "FAILED") => (lastErr # Nil /\ ret.err # Nil)
    /\ (pc = "ABORT_UNSAFE") => (ret.err = Nil /\ ret.answer # <<>>)
    /\ \A a, b \in DOMAIN StageMessage :
          (StageMessage[a] = StageMessage[b]) => (a = b)

C5_Witness ==
    /\ pc = "FAILED"
    /\ calls[Len(calls)] = "Generate"
    /\ lastErr = BackendDown
    /\ ret.err = <<"failed to generate response">> \o BackendDown
    /\ Len(documents) > 0

\* C6 as stated: a run that did not fail returns an empty source list
\* exactly when the input or the output was judged unsafe.
C6_SourcesEmptyIffUnsafe ==
    (pc \in {"DONE", "ABORT_UNSAFE"}) =>
        ((ret.sources = <<>>) <=> (InputJudgedUnsafe \/ OutputJudgedUnsafe))

\* C6 amended: a run that did not fail returns an empty source list exactly
\* when the input or the output was judged unsafe or retrieval found no
\* document; a run that passed both gates returns one source per retrieved
\* document.
C6_SourcesEmptyIffUnsafeOrNoDocuments ==
    (pc \in {"DONE", "ABORT_UNSAFE"}) =>
        /\ (ret.sources = <<>>) <=>
              (InputJudgedUnsafe \/ OutputJudgedUnsafe \/ documents = <<>>)
        /\ (pc = "DONE") => (Len(ret.sources) = Len(documents))

C6_Witness ==
    /\ pc = "DONE"
    /\ cfg.Safety
    /\ inputResult # NilResult /\ inputResult.IsSafe
    /\ outputResult # NilResult /\ outputResult.IsSafe
    /\ documents = <<>>
    /\ ret.sources = <<>>
    /\ ret.err = Nil

\* C7 as stated: on a run that passed both gates the returned answer is
\* FormatResponse(generated text, retrieved documents).
C7_AnswerIsFormatted ==
    (pc = "DONE") => (ret.answer = FormatResponse(response, documents))

\* C7 amended: on a run that passed both gates the returned answer is the
\* generated text unchanged; the citations are the separate source list,
\* one entry per retrieved document in retrieval order with that document's
\* id, content, metadata and score.
C7_AnswerIsRawTextWithSourceList ==
    (pc = "DONE") =>
        /\ ret.answer = response
        /\ ret.err = Nil
        /\ DOMAIN ret.sources = DOMAIN documents
        /\ \A i \in DOMAIN documents :
              /\ ret.sources[i].ID = documents[i].ID
              /\ ret.sources[i].Content = documents[i].Content
              /\ ret.sources[i].Metadata = documents[i].Metadata
              /\ ret.sources[i].Score = documents[i].Score

C7_Witness ==
    /\ pc = "DONE"
    /\ Len(documents) > 0
    /\ documents[1].Score > 0
    /\ ret.answer = <<" ","o","k","\n">>
    /\ ret.answer # FormatResponse(response, documents)

\* C8: the temperature handed to the generator is the per-call temperature
\* when that is not zero and the configured temperature when it is zero; so
\* generation runs at temperature zero only if the configured one is zero.
C8_ZeroTemperatureMeansDefault ==
    ("Generate" \in Ran(calls)) =>
        /\ (temperature # 0) => (opts.Temperature = temperature)
        /\ (temperature = 0) => (opts.Temperature = cfg.Temperature)
        /\ (opts.Temperature = 0) => (cfg.Temperature = 0)

C8_Witness ==
    /\ "Generate" \in Ran(calls)
    /\ temperature = 0
    /\ cfg.Temperature # 0
    /\ opts.Temperature = cfg.Temperature

\* ------------------------------------------------------------------------
\* Properties of the response parser (checked under SpecGuard)
\* ------------------------------------------------------------------------

\* the direct call has run the parser on the classifier's text
Parsed ==
    \/ gOp = "parseResponse"
    \/ gOp \in {"CheckInput", "CheckOutput"} /\ gGuard.enabled /\ gReply.err = Nil

\* the number of bytes at byte i of t that are an s under the case folding of
\* the pattern: 1 for s and S, 2 for the long s U+017F (bytes C5 BF), else 0
SWidth(t, i) ==
    IF i <= Len(t) /\ t[i] \in {"s", "S"} THEN 1
    ELSE IF i + 1 <= Len(t) /\ t[i] = "Å" /\ t[i + 1] = "¿" THEN 2
    ELSE 0

\* "unsafe", in any letter case, starts at position i of t
UnsafeAt(t, i) ==
    LET w == SWidth(t, i + 2)
    IN  /\ i >= 1 /\ i + 4 + w <= Len(t)
        /\ w > 0
        /\ LowerChar(t[i]) = "u" /\ LowerChar(t[i + 1]) = "n"
        /\ LowerChar(t[i + 2 + w]) = "a" /\ LowerChar(t[i + 3 + w]) = "f"
        /\ LowerChar(t[i + 4 + w]) = "e"

ContainsUnsafe(t) == \E i \in 1..Len(t) : UnsafeAt(t, i)

ContainsSafe(t) ==
    \E i \in 1..(Len(t) - 3) :
        /\ LowerChar(t[i]) = "s" /\ LowerChar(t[i + 1]) = "a"
        /\ LowerChar(t[i + 2]) = "f" /\ LowerChar(t[i + 3]) = "e"

\* C9: parsing is fail-closed: the verdict is safe exactly when the response
\* with surrounding white space removed is "safe" in some letter case; any
\* other response is unsafe, and one without "unsafe" in it gets the reason
\* "Unable to determine safety classification" and no category; the parser
\* always yields a verdict and no error.
C9_ParseFailsClosed ==
    Parsed =>
        /\ gResult # NilResult
        /\ gErr = Nil
        /\ gResult.IsSafe <=> IsSafeText(gReply.text)
        /\ (~IsSafeText(gReply.text) /\ ~ContainsUnsafe(gReply.text)) =>
              /\ gResult.Reason = UnableToDetermine
              /\ gResult.Category = <<>>

C9_Witness ==
    /\ gOp = "parseResponse"
    /\ ContainsSafe(gReply.text)
    /\ ~IsSafeText(gReply.text)
    /\ ~ContainsUnsafe(gReply.text)
    /\ ~gResult.IsSafe
    /\ gResult.Reason = UnableToDetermine

\* the pattern of the claim: the category token is any letter plus digits
AnyLetterPattern ==
    [literal |-> <<"u","n","s","a","f","e">>, lead |-> Ran(LowerLetters)]

\* C10 as stated: for a response that is not "safe" and contains "unsafe"
\* followed by a token of one letter plus digits, the category is that token
\* in upper case and the reason its table description, empty when the code
\* is not in the table; without a token both are empty.
C10_CategoryIsLetterDigitsToken ==
    LET m == FindStringSubmatch(AnyLetterPattern, TrimSpace(gReply.text))
    IN  (Parsed /\ ~IsSafeText(gReply.text) /\ m # <<>>) =>
            /\ ~gResult.IsSafe
            /\ gResult.Category = ToUpper(m[2])
            /\ gResult.Reason =
                  IF ToUpper(m[2]) \in DOMAIN SafetyCategories
                  THEN SafetyCategories[ToUpper(m[2])] ELSE <<>>

\* position of the first "unsafe" in t
FirstUnsafe(t) ==
    CHOOSE i \in 1..Len(t) :
        UnsafeAt(t, i) /\ \A j \in 1..(i - 1) : ~UnsafeAt(t, j)

\* position of the first character after that "unsafe" that is not white
\* space, Len(t) + 1 when there is none
TokenStart(t) ==
    LET i == FirstUnsafe(t)
        e == i + 5 + SWidth(t, i + 2)
    IN  CHOOSE k \in e..(Len(t) + 1) :
            /\ \A j \in e..(k - 1) : t[j] \in WhiteSpace
            /\ (k = Len(t) + 1 \/ t[k] \notin WhiteSpace)

\* an S-code starts there: the letter s, S or long s and at least one digit
HasCategoryToken(t) ==
    LET k == TokenStart(t)
        w == SWidth(t, k)
    IN  w > 0 /\ k + w <= Len(t) /\ t[k + w] \in Digits

\* the digits of that S-code: the longest run of digits after the letter
TokenDigits(t) ==
    LET k == TokenStart(t) + SWidth(t, TokenStart(t))
        m == CHOOSE x \in k..Len(t) :
                /\ \A j \in k..x : t[j] \in Digits
                /\ (x = Len(t) \/ t[x + 1] \notin Digits)
    IN  SubSeq(t, k, m)

RecognizedCodes == { <<"S">> \o Itoa(n) : n \in 1..14 }

\* C10 amended: for a response that is not "safe" and contains "unsafe", the
\* verdict is unsafe; when the first "unsafe" is followed, after optional
\* white space, by the letter s, S or long s (U+017F, which the pattern
\* folds to s and ToUpper maps to S) and one or more digits, the category is
\* "S" plus those digits and the reason is the table description when that
\* code is one of S1..S14 and empty otherwise; in every other case (no
\* token, or a token with another letter) category and reason are empty.
C10_CategoryIsSCodeAfterFirstUnsafe ==
    LET t == gReply.text
    IN  (Parsed /\ ~IsSafeText(t) /\ ContainsUnsafe(t)) =>
            /\ ~gResult.IsSafe
            /\ DOMAIN SafetyCategories = RecognizedCodes
            /\ SafetyCategories[<<"S","1","0">>] = <<"H","a","t","e">>
            /\ IF HasCategoryToken(t)
               THEN /\ gResult.Category = <<"S">> \o TokenDigits(t)
                    /\ (gResult.Category \in RecognizedCodes) =>
                          (gResult.Reason = SafetyCategories[gResult.Category])
                    /\ (gResult.Category \notin RecognizedCodes) =>
                          (gResult.Reason = <<>>)
               ELSE /\ gResult.Category = <<>>
                    /\ gResult.Reason = <<>>

C10_Witness ==
    /\ gOp = "parseResponse"
    /\ ContainsUnsafe(gReply.text)
    /\ \E k \in 1..(Len(gReply.text) - 2) :
          /\ gReply.text[k] = "s"
          /\ gReply.text[k + 1] = "1"
          /\ gReply.text[k + 2] = "0"
          /\ k + 2 = Len(gReply.text)
    /\ gResult.Category = <<"S","1","0">>
    /\ gResult.Reason = <<"H","a","t","e">>

\* ------------------------------------------------------------------------
\* Properties of the refusal message (checked under SpecRefusal)
\* ------------------------------------------------------------------------

\* p is a prefix of s
StartsWith(s, p) == Len(p) <= Len(s) /\ SubSeq(s, 1, Len(p)) = p

\* p is a suffix of s
EndsWith(s, p) ==
    Len(p) <= Len(s) /\ SubSeq(s, Len(s) - Len(p) + 1, Len(s)) = p

\* sub occurs in s
Contains(s, sub) ==
    \E i \in 1..(Len(s) - Len(sub) + 1) : SubSeq(s, i, i + Len(sub) - 1) = sub

\* "I can't provide assistance with that request as it may violate content
\* safety guidelines"
RefusalPrefix ==
    <<"I"," ","c","a","n","'","t"," ","p","r","o","v","i","d","e"," ",
      "a","s","s","i","s","t","a","n","c","e"," ","w","i","t","h"," ",
      "t","h","a","t"," ","r","e","q","u","e","s","t"," ","a","s"," ",
      "i","t"," ","m","a","y"," ","v","i","o","l","a","t","e"," ",
      "c","o","n","t","e","n","t"," ","s","a","f","e","t","y"," ",
      "g","u","i","d","e","l","i","n","e","s">>

\* "(category: <code> - <description>)"
CategorySuffix(code, description) ==
    <<"(","c","a","t","e","g","o","r","y",":"," ">> \o code
      \o <<" ","-"," ">> \o description \o <<")">>

\* C11: the refusal message always starts with the fixed sentence; it
\* contains "(category: <code> - <description>)" exactly when the code is not
\* empty and is a key of the category table; for an empty or unknown code it
\* is the fixed sentence alone (closed by its full stop) and contains neither
\* "category:" nor the code.
C11_RefusalNamesOnlyKnownCategory ==
    (rOp = "GetRefusalMessage") =>
        LET known == rCategory # <<>> /\ rCategory \in RecognizedCodes
        IN  /\ StartsWith(rMessage, RefusalPrefix)
            /\ known <=>
                  (\E c \in RecognizedCodes :
                      Contains(rMessage, CategorySuffix(c, SafetyCategories[c])))
            /\ known =>
                  rMessage = RefusalPrefix \o <<" ">>
                      \o CategorySuffix(rCategory, SafetyCategories[rCategory])
                      \o <<".">>
            /\ ~known =>
                  /\ rMessage = RefusalPrefix \o <<".">>
                  /\ ~Contains(rMessage, <<"c","a","t","e","g","o","r","y",":">>)
                  /\ (rCategory # <<>>) => ~Contains(rMessage, rCategory)

C11_Witness ==
    /\ rOp = "GetRefusalMessage"
    /\ rCategory = <<"S","9","9">>
    /\ rMessage = RefusalPrefix \o <<".">>

\* ------------------------------------------------------------------------
\* Properties of the chunker (checked under SpecChunk)
\* ------------------------------------------------------------------------

\* the words of every chunk, chunk after chunk
RECURSIVE ChunkWordsOf(_)
ChunkWordsOf(chunks) ==
    IF Len(chunks) = 0 THEN <<>>
    ELSE ChunkWordsOf(SubSeq(chunks, 1, Len(chunks) - 1))
           \o Fields(chunks[Len(chunks)])

\* a[i..] is a subsequence of b[j..]
RECURSIVE IsSubsequenceFrom(_, _, _, _)
IsSubsequenceFrom(a, i, b, j) ==
    IF i > Len(a) THEN TRUE
    ELSE IF j > Len(b) THEN FALSE
    ELSE IF a[i] = b[j] THEN IsSubsequenceFrom(a, i + 1, b, j + 1)
    ELSE IsSubsequenceFrom(a, i, b, j + 1)

\* chunkText has run on a text with at least one word
Chunked == kOp = "chunkText" /\ Fields(kText) # <<>> /\ kOverlap < kMaxTokens

\* C12: for a text with at least one word and 0 <= overlap < maxTokens,
\* every word of the text is a whole word of some chunk, the words of the
\* text are, in order, a subsequence of the chunks' words, the last word of
\* the text is the last word of the last chunk, and no chunk is empty.
C12_ChunkCoverage ==
    Chunked =>
        LET words == Fields(kText)
            last  == kChunks[Len(kChunks)]
        IN  /\ Len(kChunks) >= 1
            /\ \A i \in 1..Len(words) :
                  \E c \in 1..Len(kChunks) : words[i] \in Ran(Fields(kChunks[c]))
            /\ IsSubsequenceFrom(words, 1, ChunkWordsOf(kChunks), 1)
            /\ Fields(last) # <<>>
            /\ Fields(last)[Len(Fields(last))] = words[Len(words)]
            /\ \A c \in 1..Len(kChunks) : kChunks[c] # <<>>

C12_Witness ==
    /\ Chunked
    /\ kOverlap > 0
    /\ Len(kChunks) >= 3
    /\ Len(ChunkWordsOf(kChunks)) > Len(Fields(kText))

\* C13: with overlap < maxTokens every chunk is at most maxChars = 4*maxTokens
\* characters long, unless it holds a word that alone is longer than that.
C13_ChunkSizeBound ==
    (kOp = "chunkText" /\ kOverlap < kMaxTokens) =>
        \A c \in 1..Len(kChunks) :
            \/ Len(kChunks[c]) <= 4 * kMaxTokens
            \/ \E w \in Ran(Fields(kChunks[c])) : Len(w) > 4 * kMaxTokens

\* f is a proper fragment of w: a contiguous part of it, not all of it
ProperFragment(f, w) == f # <<>> /\ f # w /\ Contains(w, f)

\* the words of the text that alone are longer than maxChars
LongWords == { w \in Ran(Fields(kText)) : Len(w) > 4 * kMaxTokens }

\* C14 as stated: a word longer than maxChars is a whole word of some chunk
\* and no word of any chunk is a proper fragment of it.
C14_LongWordNeverFragmented ==
    Chunked =>
        \A w \in LongWords :
            /\ \E c \in 1..Len(kChunks) : w \in Ran(Fields(kChunks[c]))
            /\ \A c \in 1..Len(kChunks) :
                  \A f \in Ran(Fields(kChunks[c])) : ~ProperFragment(f, w)

\* C14 amended: a word longer than maxChars is a whole word of some chunk;
\* a chunk word that is a proper fragment of it is the overlap prefix of the
\* chunk after the one the word closes, namely the last overlapChars =
\* 4*overlap characters of the word; with overlap = 0 there is none.
C14_LongWordWholeFragmentOnlyAsOverlap ==
    Chunked =>
        \A w \in LongWords :
            /\ \E c \in 1..Len(kChunks) : w \in Ran(Fields(kChunks[c]))
            /\ \A c \in 1..Len(kChunks) :
                  LET toks == Fields(kChunks[c])
                  IN  \A p \in 1..Len(toks) :
                        ProperFragment(toks[p], w) =>
                          /\ kOverlap > 0
                          /\ p = 1 /\ c > 1
                          /\ LET prev == Fields(kChunks[c - 1])
                             IN  prev[Len(prev)] = w
                          /\ toks[p] = SubSeq(w, Len(w) - 4 * kOverlap + 1, Len(w))

C14_Witness ==
    /\ Chunked
    /\ kOverlap = 1
    /\ <<"l","m","n","o","p","q","r","s","t">> \in LongWords
    /\ \E c \in 2..Len(kChunks) :
          /\ kChunks[c - 1] = <<"l","m","n","o","p","q","r","s","t">>
          /\ Fields(kChunks[c])[1] = <<"q","r","s","t">>

\* the overlap text of a closed chunk, as C26 describes it: the whole chunk
\* if it is no longer than overlapChars; else what follows the first space at
\* or after position len - overlapChars; else its last overlapChars characters
OverlapSeed(chunk, overlapChars) ==
    LET len    == Len(chunk)
        spaces == { j \in (len - overlapChars + 1)..len : chunk[j] = " " }
    IN  IF len <= overlapChars THEN chunk
        ELSE IF spaces # {}
        THEN LET first == CHOOSE j \in spaces : \A k \in spaces : j <= k
             IN  SubSeq(chunk, first + 1, len)
        ELSE SubSeq(chunk, len - overlapChars + 1, len)

\* the words of the text that the chunks 1..k hold, the overlap texts at the
\* head of the chunks not counted
RECURSIVE WordsUsed(_, _, _)
WordsUsed(chunks, k, overlapChars) ==
    IF k = 0 THEN 0
    ELSE WordsUsed(chunks, k - 1, overlapChars) + Len(Fields(chunks[k]))
           - (IF k > 1 /\ overlapChars > 0
              THEN Len(Fields(OverlapSeed(chunks[k - 1], overlapChars)))
              ELSE 0)

\* C26: a chunk that follows a closed chunk starts with the overlap text of
\* the closed chunk, one space, and the word that triggered the break (the
\* first word of the text not yet in a chunk); the overlap text is a suffix
\* of the closed chunk of at most overlapChars characters; with overlap 0
\* the chunk starts with the triggering word alone.
C26_NextChunkIsOverlapSeedThenWord ==
    Chunked =>
        LET words        == Fields(kText)
            overlapChars == kOverlap * 4
        IN  \A k \in 1..(Len(kChunks) - 1) :
              LET seed == OverlapSeed(kChunks[k], overlapChars)
                  used == WordsUsed(kChunks, k, overlapChars)
              IN  /\ used < Len(words)
                  /\ Len(seed) <= overlapChars
                  /\ EndsWith(kChunks[k], seed)
                  /\ IF overlapChars > 0
                     THEN /\ seed # <<>>
                          /\ StartsWith(kChunks[k + 1] \o <<" ">>,
                                        seed \o <<" ">> \o words[used + 1] \o <<" ">>)
                     ELSE StartsWith(kChunks[k + 1] \o <<" ">>,
                                     words[used + 1] \o <<" ">>)

C26_Witness ==
    /\ Chunked
    /\ kMaxTokens = 2
    /\ kOverlap = 1
    /\ kChunks = << <<"d","e","f"," ","b","c">>,
                    <<"b","c"," ","l","m","n","o","p","q","r","s","t">>,
                    <<"q","r","s","t"," ","a">> >>

\* ------------------------------------------------------------------------
\* Properties of the chunker on any arguments (checked under SpecChunkAny)
\* ------------------------------------------------------------------------

\* the text is empty or white space only
IsBlank(text) == TrimSpace(text) = <<>>

\* C24: chunking an empty or white-space-only text returns no chunk, for
\* every maxTokens and overlap, zero and negative ones included.
C24_BlankTextGivesNoChunks ==
    (kOp = "chunkText" /\ IsBlank(kText)) => (kChunks = <<>>)

C24_Witness ==
    /\ kOp = "chunkText"
    /\ kText = <<"\n", " ", "\t">>
    /\ kMaxTokens = 0
    /\ kOverlap = 1
    /\ kChunks = <<>>

\* ------------------------------------------------------------------------
\* Properties of Processor.Process (checked under SpecProcess)
\* ------------------------------------------------------------------------

\* call c was made and returned documents
Processed(c) == c # NoCall /\ c.err = Nil

\* C15: a successful Process call returns n >= 1 documents whose chunk_id
\* are 0, 1, ..., n-1 in order and whose total_chunks are all n; their ids
\* are pairwise different; and two calls for the same source path give the
\* same id to the same chunk index, whatever the file content, the title,
\* the type and the chunk sizes were.
C15_ChunkRecordsNumbered ==
    /\ Processed(pCall) =>
          LET docs == pCall.documents
              n    == Len(docs)
          IN  /\ n >= 1
              /\ \A k \in 1..n :
                    /\ docs[k].Metadata.chunk_id = k - 1
                    /\ docs[k].Metadata.total_chunks = n
              /\ \A j, k \in 1..n : (docs[j].ID = docs[k].ID) => (j = k)
    /\ (Processed(pCall) /\ Processed(pPrev)
          /\ pCall.source.Path = pPrev.source.Path) =>
          \A k \in DOMAIN pCall.documents \cap DOMAIN pPrev.documents :
              pCall.documents[k].ID = pPrev.documents[k].ID

C15_Witness ==
    /\ Processed(pCall) /\ Processed(pPrev)
    /\ pCall.source.Path = pPrev.source.Path
    /\ pCall.source.Title # pPrev.source.Title
    /\ pCall.source.Type # pPrev.source.Type
    /\ pCall.file # pPrev.file
    /\ pCall.processor # pPrev.processor
    /\ Len(pCall.documents) >= 3
    /\ Len(pPrev.documents) >= 2
    /\ pCall.documents[2].Content # pPrev.documents[2].Content

\* ------------------------------------------------------------------------
\* Properties of an ingest run (checked under SpecIngest)
\* ------------------------------------------------------------------------

\* C16: whatever configuration validation accepted and whatever the
\* --chunk-size and --overlap flags are, the chunker is run with
\* 0 <= chunkOverlap < chunkTokens.
C16_OverlapBelowChunkTokens ==
    (iOp = "ingested") =>
        /\ 0 <= iProcessor.chunkOverlap
        /\ iProcessor.chunkOverlap < iProcessor.chunkTokens

\* ------------------------------------------------------------------------
\* Properties of the prompt builder (checked under SpecFormat,
\* SpecRAGPrompt and SpecSystemPrompt)
\* ------------------------------------------------------------------------

\* "**Sources:**"
SourcesHeader == <<"*","*","S","o","u","r","c","e","s",":","*","*">>

\* FormatResponse has been called
Formatted == bOp \in {"FormatResponse", "FormatResponse again"}

\* C17 as stated: FormatResponse without sources returns the response with
\* the white space around it removed, and formatting a formatted answer once
\* more without sources returns it with the white space around it removed.
C17_NoSourcesTrims ==
    /\ (Formatted /\ bDocs = <<>>) => (bOut = TrimSpace(bText))
    /\ (bOp = "FormatResponse again") => (bAgain = TrimSpace(bOut))

\* C17 amended: FormatResponse without sources returns the response as it
\* is, white space included, and adds no Sources section; so formatting a
\* formatted answer once more without sources returns it unchanged.
C17_NoSourcesPassThrough ==
    /\ (Formatted /\ bDocs = <<>>) =>
          /\ bOut = bText
          /\ ~Contains(bOut, SourcesHeader)
    /\ (bOp = "FormatResponse again") => (bAgain = bOut)

C17_Witness ==
    /\ bOp = "FormatResponse again"
    /\ bDocs = <<>>
    /\ bText = <<" ","o","k","\n">>
    /\ bOut = bText
    /\ bOut # TrimSpace(bText)
    /\ bAgain = bOut

\* the lines of s, each closed by a line feed
RECURSIVE SplitLines(_)
SplitLines(s) ==
    IF s = <<>> THEN <<>>
    ELSE LET k == SkipUntil(s, 1, {"\n"})
         IN  <<SubSeq(s, 1, k - 1)>> \o SplitLines(SubSeq(s, k + 1, Len(s)))

\* the text a source is cited by: its title when it has a non-empty one,
\* else its path when it has a non-empty one, else "Document <id>"
Citation(source) ==
    IF "title" \in DOMAIN source.Metadata /\ source.Metadata["title"] # <<>>
    THEN source.Metadata["title"]
    ELSE IF "path" \in DOMAIN source.Metadata /\ source.Metadata["path"] # <<>>
    THEN source.Metadata["path"]
    ELSE <<"D","o","c","u","m","e","n","t"," ">> \o source.ID

\* C18: for n >= 1 sources the formatted answer is the trimmed response, a
\* Sources header and exactly n entries in the order of the sources; entry i
\* starts with "[i]" and the source's title, else its path, else
\* "Document <id>"; an entry has a relevance percentage exactly when the
\* source's score is above zero.
C18_SourcesSectionListsEverySource ==
    (Formatted /\ Len(bDocs) > 0) =>
        LET head    == TrimSpace(bText) \o <<"\n","\n">> \o SourcesHeader \o <<"\n">>
            entries == SplitLines(SubSeq(bOut, Len(head) + 1, Len(bOut)))
        IN  /\ StartsWith(bOut, head)
            /\ bOut[Len(bOut)] = "\n"
            /\ Len(entries) = Len(bDocs)
            /\ \A i \in 1..Len(bDocs) :
                  LET label == <<"[">> \o Itoa(i) \o <<"]"," ">> \o Citation(bDocs[i])
                  IN  /\ StartsWith(entries[i], label)
                      /\ (bDocs[i].Score > 0) <=>
                            Contains(entries[i], <<"r","e","l","e","v","a","n","c","e",":">>)
                      /\ (bDocs[i].Score > 0) <=> (entries[i][Len(entries[i])] = ")")
                      /\ (bDocs[i].Score > 0) =>
                            Contains(entries[i], <<"%",")">>)
                      /\ (bDocs[i].Score = 0) => (entries[i] = label)

C18_Witness ==
    /\ bOp = "FormatResponse"
    /\ Len(bDocs) = 2
    /\ bDocs[1].Score = 0
    /\ bDocs[1].Metadata = [title |-> <<>>, path |-> <<"p","4">>]
    /\ bDocs[2].Score > 0
    /\ "title" \notin DOMAIN bDocs[2].Metadata
    /\ bText # TrimSpace(bText)
    /\ Contains(bOut, <<"[","1","]"," ","p","4","\n","[","2","]"," ","p"," ","(">>)

\* the first position >= from where sub starts in s, 0 if there is none
IndexFrom(s, sub, from) ==
    LET at == { i \in from..(Len(s) - Len(sub) + 1) :
                  SubSeq(s, i, i + Len(sub) - 1) = sub }
    IN  IF at = {} THEN 0 ELSE CHOOSE i \in at : \A j \in at : i <= j

\* the header of context document i with its content: "Source <i>", then
\* " - <title>", else " - <path>", else nothing, then ":" and the content
\* on the next line
SourceBlock(i, doc) ==
    <<"S","o","u","r","c","e"," ">> \o Itoa(i)
      \o (IF "title" \in DOMAIN doc.Metadata /\ doc.Metadata["title"] # <<>>
          THEN <<" ","-"," ">> \o doc.Metadata["title"]
          ELSE IF "path" \in DOMAIN doc.Metadata /\ doc.Metadata["path"] # <<>>
          THEN <<" ","-"," ">> \o doc.Metadata["path"]
          ELSE <<>>)
      \o <<":","\n">> \o doc.Content \o <<"\n">>

\* the blocks of documents i..Len(docs) occur in prompt in this order, the
\* first of them at or after position from
RECURSIVE BlocksInOrder(_, _, _, _)
BlocksInOrder(prompt, docs, i, from) ==
    IF i > Len(docs) THEN TRUE
    ELSE LET at == IndexFrom(prompt, SourceBlock(i, docs[i]), from)
         IN  at # 0 /\ BlocksInOrder(prompt, docs, i + 1,
                                     at + Len(SourceBlock(i, docs[i])))

\* C19: the prompt always holds "Question: <query>"; with n >= 1 context
\* documents it starts with the preamble, then holds the blocks "Source 1" to
\* "Source n" in the order of the documents, each header with the title, else
\* the path, else nothing, and followed by the document's content, and it
\* ends with the instructions that refer to the context; without context it
\* holds neither the preamble nor a Source header and ends with the generic
\* instructions.
C19_GroundedPromptLayout ==
    (bOp = "BuildRAGPrompt") =>
        LET asked    == <<"Q","u","e","s","t","i","o","n",":"," ">> \o bText
            qAt      == IndexFrom(bOut, asked, 1)
        IN  /\ qAt # 0
            /\ (Len(bDocs) > 0) =>
                  /\ StartsWith(bOut, ContextPreamble)
                  /\ BlocksInOrder(bOut, bDocs, 1, Len(ContextPreamble) + 1)
                  /\ ~Contains(bOut, <<"S","o","u","r","c","e"," ">>
                                        \o Itoa(Len(bDocs) + 1))
                  /\ IndexFrom(bOut, SourceBlock(Len(bDocs), bDocs[Len(bDocs)]), 1)
                        < qAt
                  /\ EndsWith(bOut, GroundedInstructions)
                  /\ qAt + Len(asked) < Len(bOut) - Len(GroundedInstructions) + 1
                  /\ ~Contains(bOut, GenericInstructions)
            /\ (Len(bDocs) = 0) =>
                  /\ ~Contains(bOut, ContextPreamble)
                  /\ ~Contains(bOut, <<"S","o","u","r","c","e">>)
                  /\ qAt = 1
                  /\ EndsWith(bOut, GenericInstructions)
                  /\ ~Contains(bOut, GroundedInstructions)
                  /\ ~Contains(bOut, <<"c","o","n","t","e","x","t">>)

C19_Witness ==
    /\ bOp = "BuildRAGPrompt"
    /\ Len(bDocs) = 2
    /\ "title" \notin DOMAIN bDocs[1].Metadata
    /\ "path" \in DOMAIN bDocs[1].Metadata
    /\ bDocs[2].Metadata = <<>>
    /\ Contains(bOut, <<"S","o","u","r","c","e"," ","1"," ","-"," ","p",":","\n","c","2">>)
    /\ Contains(bOut, <<"S","o","u","r","c","e"," ","2",":","\n","c","3">>)

\* C20: once a BuildSystemPrompt call on a builder has succeeded, every
\* later call on it succeeds with the same string and does not read the
\* prompt file, whatever was loaded and whatever has become of the file; a
\* call that fails leaves nothing cached; a builder without a prompt file
\* path returns the built-in prompt and never fails.
C20_SystemPromptCachedAfterFirstLoad ==
    (bOp = "BuildSystemPrompt") =>
        /\ bPrevOk =>
              /\ bOut.err = Nil
              /\ bOut.value = bFirst.value
              /\ ~bOut.read
        /\ (bOut.err # Nil) => (bBuilder.systemPrompt = <<>>)
        /\ (bBuilder.systemPromptPath = <<>>) =>
              /\ bOut.err = Nil
              /\ bOut.value = getDefaultSystemPrompt

\* ------------------------------------------------------------------------
\* Properties of concurrent BuildSystemPrompt calls (checked under SpecRace)
\* ------------------------------------------------------------------------

\* C21: when queries call BuildSystemPrompt concurrently on one shared
\* Builder and the prompt source does not change, every call returns the same
\* value, no call returns a partially written string, and once all calls have
\* returned a value the cache holds that value.
C21_ConcurrentFirstLoadsAgree ==
    /\ \A q \in ConcurrentQueries : Returned(q) => xRet[q].value # Torn
    /\ \A q1, q2 \in ConcurrentQueries :
          (Returned(q1) /\ Returned(q2)) => (xRet[q1] = xRet[q2])
    /\ (\A q \in ConcurrentQueries : Returned(q) /\ xRet[q].err = Nil) =>
          \A q \in ConcurrentQueries : StringOf(xPtr, xLen) = xRet[q].value

\* ------------------------------------------------------------------------
\* Properties of GenerateStream (checked under SpecStream)
\* ------------------------------------------------------------------------

\* a token that ends the stream
TerminalToken(t) == t.Done \/ t.Error # Nil

\* a is a prefix of b
IsPrefix(a, b) == Len(a) <= Len(b) /\ a = SubSeq(b, 1, Len(a))

\* the tokens that the response holds, in its order: one per JSON line of an
\* ollama body, one per word of the stub response and the done token after
\* them
TokensOf(backend, body) ==
    IF backend = "ollama"
    THEN LET json == SelectSeq(body, LAMBDA l : l.kind = "json")
         IN  [i \in 1..Len(json) |-> StreamToken(json[i].Response, json[i].Done, Nil)]
    ELSE [i \in 1..Len(body) |-> StreamToken(body[i] \o <<" ">>, FALSE, Nil)]
           \o <<StreamToken(<<>>, TRUE, Nil)>>

\* C22: the tokens are put on the channel, and delivered, in the order the
\* response holds them; only the last token sent can be terminal (Done or
\* Error), so at most one terminal token is sent and nothing after it; after
\* a terminal token the producer only closes the channel, and it sends
\* nothing on a closed channel.
C22_StreamOrderedOneTerminalThenClosed ==
    /\ sRecv \o sChan = sSent
    /\ IsPrefix(SelectSeq(sSent, LAMBDA t : t.Error = Nil), TokensOf(sBackend, sBody))
    /\ \A i \in 1..Len(sSent) :
          /\ TerminalToken(sSent[i]) => (i = Len(sSent) /\ sPc \in {"exit", "done"})
          /\ (sSent[i].Error # Nil) => (sSent[i].Text = <<>> /\ ~sSent[i].Done)
    /\ sClosed <=> (sPc = "done")

C22_Witness ==
    /\ sBackend = "ollama"
    /\ sClosed
    /\ Len(sBody) > Len(sSent)
    /\ Len(sSent) >= 3
    /\ sSent[Len(sSent)].Done
    /\ sRecv = sSent

\* the token carries the cancellation error of the context
CarriesCancellation(t) ==
    /\ t.Error # Nil
    /\ t.Error[Len(t.Error)] = Canceled[1]
    /\ t.Text = <<>>
    /\ ~t.Done

\* C23: once the producer has observed the cancellation, the next and only
\* thing it sends is one token carrying the cancellation error; after it the
\* producer stops and closes the channel.
C23_NoTextAfterCancellationObserved ==
    sObserved =>
       LET cancels == SelectSeq(sSent, CarriesCancellation)
       IN  \/ /\ sPc = "send"
              /\ CarriesCancellation(sTok)
              /\ sThen = "exit"
              /\ cancels = <<>>
           \/ /\ sPc \in {"exit", "done"}
              /\ Len(cancels) = 1
              /\ CarriesCancellation(sSent[Len(sSent)])

C23_Witness ==
    /\ sObserved
    /\ sClosed
    /\ Len(sSent) >= 3
    /\ sPos < Len(sBody)
    /\ sSent[Len(sSent)].Error = Canceled

\* C28: the producer never remains blocked on a channel send after the
\* caller has cancelled: there is no state in which the context is
\* cancelled, the consumer has stopped receiving, and the producer waits to
\* send on the full channel (nothing can ever take a token out again, so the
\* goroutine neither terminates nor closes the channel).
C28_ProducerNeverBlockedAfterCancel ==
    ~ ( /\ sCtx = "cancelled"
        /\ sConsumer = "stopped"
        /\ sPc = "send"
        /\ Len(sChan) = StreamBuffer )

\* ------------------------------------------------------------------------
\* The order of the pipeline (checked under Spec)
\* ------------------------------------------------------------------------

\* the collaborator calls of a run in the order of the pipeline
PipelineOrder ==
    <<"CheckInput", "Search", "BuildRAGPrompt", "BuildSystemPrompt", "Generate",
      "CheckOutput">>

\* those of them a complete run makes: the gates only when safety is on
CompleteRun ==
    SelectSeq(PipelineOrder,
              LAMBDA c : c \in {"CheckInput", "CheckOutput"} => cfg.Safety)

\* C25: the collaborator calls of a run are, in this order and each at most
\* once, CheckInput, Search, BuildRAGPrompt and BuildSystemPrompt, Generate,
\* CheckOutput (the gates only when safety is on); a gate asks its classifier
\* at most once; no call follows a failed call; and the run ends as DONE
\* (all calls made, no error), as ABORT_UNSAFE (a gate made the last call,
\* no error, no sources) or as FAILED (the last call failed, the error is
\* returned).
C25_StagesInOrderOnceThenOneOutcome ==
    /\ IsPrefix(calls, CompleteRun)
    /\ guardCalls <= Len(SelectSeq(calls,
                            LAMBDA c : c \in {"CheckInput", "CheckOutput"}))
    /\ pc \in {"idle", "INPUT_CHECK", "RETRIEVE", "PROMPT_BUILD", "GENERATE",
               "OUTPUT_CHECK", "FORMAT", "DONE", "ABORT_UNSAFE", "FAILED"}
    /\ (lastErr # Nil) => (pc \in {"FAILED", "idle"})
    /\ (pc = "DONE") => (calls = CompleteRun /\ ret.err = Nil /\ lastErr = Nil)
    /\ (pc = "ABORT_UNSAFE") =>
          /\ calls # <<>>
          /\ calls[Len(calls)] \in {"CheckInput", "CheckOutput"}
          /\ ret.err = Nil
          /\ ret.sources = <<>>
    /\ (pc = "FAILED") =>
          /\ calls # <<>>
          /\ lastErr # Nil
          /\ ret.err # Nil
          /\ ret.answer = <<>>

C25_Witness ==
    /\ pc = "FAILED"
    /\ cfg.Safety
    /\ calls = SubSeq(PipelineOrder, 1, 5)
    /\ runs = 1

\* the points the configured collection holds
Stored == qStore[Configured].points

\* the calls of IngestFile that returned without error
Succeeded == { i \in DOMAIN nReports : nReports[i].err = Nil }

\* the collection holds the chunk record doc
Holds(points, doc) ==
    \E id \in DOMAIN points :
        /\ points[id].Payload.content = doc.Content
        /\ points[id].Payload.path = doc.Metadata.path
        /\ points[id].Payload.chunk_id = doc.Metadata.chunk_id

\* C27: ingestion accumulates. The chunks of a file that IngestFile ingested
\* successfully stay in the collection when other files are ingested after
\* it (until the same file is ingested again), and after successful calls
\* for two different files the number of stored points is the sum of the
\* two chunk counts the calls returned.
C27_IngestionAccumulates ==
    /\ \A i \in Succeeded :
          (\A j \in Succeeded : j > i => nReports[j].path # nReports[i].path)
          => \A k \in DOMAIN nReports[i].documents :
                Holds(Stored, nReports[i].documents[k])
    /\ \A i, j \in Succeeded :
          (i < j /\ Succeeded = {i, j} /\ nReports[i].path # nReports[j].path)
          => Cardinality(DOMAIN Stored) = nReports[i].n + nReports[j].n

\* a file of the directory from which no text can be extracted: a readable
\* file that holds white space only, or whose extracted text is empty or
\* white space
NoText(f) ==
    /\ f.stat = Nil
    /\ f.err = Nil
    /\ \/ IsBlank(f.content)
       \/ /\ ~IsPanic(extractText(f.content, Ext(f.path)))
          /\ IsBlank(extractText(f.content, Ext(f.path)))

\* the reports of the current run of the ingest command
ThisRun == nReports

RECURSIVE SumOfSucceeded(_)
SumOfSucceeded(reports) ==
    IF reports = <<>> THEN 0
    ELSE (IF Head(reports).err = Nil THEN Head(reports).n ELSE 0)
         + SumOfSucceeded(Tail(reports))

\* C29: a file without extractable text is skipped. IngestFile returns
\* Process's error for it and no chunk record, AddDocuments is not called and
\* the store is as before; the command goes on with the files after it (it
\* does not end at such a file), and the total it reports is the sum of the
\* counts of the files that succeeded.
C29_BlankFileSkippedAndRunGoesOn ==
    /\ \A i \in 1..Len(ThisRun) :
          /\ ThisRun[i].path = nDir[i].path
          /\ NoText(nDir[i]) =>
                /\ ThisRun[i].err =
                     <<"failed to process file",
                       "document contains no extractable text">>
                /\ ThisRun[i].documents = <<>>
                /\ ~ThisRun[i].added
                /\ ThisRun[i].n = 0
                /\ IF i < Len(ThisRun) THEN ThisRun[i + 1].before = ThisRun[i].before
                   ELSE qStore = ThisRun[i].before
    /\ Len(ThisRun) = nPos
    /\ nOp = "ingesting" => nPos < Len(nDir)
    /\ nOp = "done" => nPos = Len(nDir)
    /\ nOp = "failed" => ThisRun = <<>>
    /\ nOp = "panicked" => ~NoText(nDir[nPos + 1])
    /\ nTotal = SumOfSucceeded(ThisRun)

\* the collection the flags of the reset command select
Selected(flags) ==
    IF flags.collection = <<>> THEN Configured ELSE flags.collection

\* C30: the reset command deletes nothing unless it is confirmed, and a
\* successful reset leaves the collection selected by --collection (the
\* configured one for an empty flag) existing and empty and every other
\* collection as it was.
C30_ResetOnlySelectedCollectionWhenConfirmed ==
    /\ zOp = "cancelled" => qStore = zBefore
    /\ ~Confirmed(zFlags, zAnswer) => qStore = zBefore
    /\ zOp = "reset" =>
          /\ qStore[Selected(zFlags)] = Empty
          /\ \A c \in Collections \ {Selected(zFlags)} : qStore[c] = zBefore[c]

====
